---- MODULE Spec2Model ----
(***************************************************************************)
(* skyscraper: retention-based cleanup of a user's social-media history.   *)
(*                                                                         *)
(* The model follows one process run of main (src/src/main.rs): the        *)
(* Bluesky run (src/src/bluesky.rs delete_old_posts, three passes of       *)
(* delete_old_records) and then the Mastodon run (src/src/mastodon.rs      *)
(* delete_old_posts, the statuses loop and the favourites loop).           *)
(*                                                                         *)
(* The platform servers are the environment.  A server keeps each          *)
(* collection as a sequence of records in its own listing order; a cursor  *)
(* names the last record of the page it came with and stays valid when     *)
(* records are deleted.  Every client call may fail.                       *)
(*                                                                         *)
(* Strings are sequences of tokens: ":" and "/" are tokens of their own,   *)
(* so that format!("{platform}:{id}") and uri.rsplit('/') are computed.    *)
(***************************************************************************)
EXTENDS Integers, Sequences, FiniteSets, TLC

\* ------------------------------------------------------------------ bounds
\* Records held by one platform account, over all its collections.
MaxRecs == 2
\* Largest page a server returns.
MaxPage == 2
\* Client calls that fail in one process run.
MaxFaults == 1
\* Records over all accounts in the runs of any set of platforms.
MaxAll == 1
\* Characters in a keep file whose every content is tried.
MaxFile == 4
\* Times the schedule starts the process.
MaxRuns == 2
\* Parts of a Link header whose every make-up is tried.
MaxParts == 2

\* ----------------------------------------------------------------- strings
None == <<>>
Some(x) == <<x>>

\* The instant Utc::now() - TimeDelta::days(retention_days), on a small clock.
Cutoff == 2

\* A created_at string: its shape and the local time and offset it spells.
\* "rfc3339" is 2024-06-15T12:30:00+05:30 (or Z), "%z" is ...+0530,
\* "invalid" is anything else ("not-a-date", "").
TsOld == [fmt |-> "rfc3339", local |-> Cutoff + 1, off |-> 2]
TsEq == [fmt |-> "%z", local |-> Cutoff, off |-> 0]
TsNew == [fmt |-> "rfc3339", local |-> Cutoff + 1, off |-> 0]
TsBad == [fmt |-> "invalid", local |-> 0, off |-> 0]
TsStrings == {TsOld, TsEq, TsNew, TsBad}

\* A parser that reads every string as some instant.
parse_timestampLenient(s) == [ok |-> TRUE, utc |-> s.local - s.off]

\* parse_timestamp, then with_timezone(&Utc): the instant of the string.
parse_timestamp(s) ==
    IF s.fmt = "rfc3339" THEN [ok |-> TRUE, utc |-> s.local - s.off]
    ELSE IF s.fmt = "%z" THEN [ok |-> TRUE, utc |-> s.local - s.off]
    ELSE [ok |-> FALSE, utc |-> 0]

\* format!("{platform}:{id}")
PlatformId(platform, id) == <<platform, ":">> \o id

\* An entry with any platform prefix protects.
is_protectedAnyPrefix(keep, platform, id) ==
    \E e \in keep : e = id \/ (Len(e) >= 2 /\ e[2] = ":" /\ SubSeq(e, 3, Len(e)) = id)

\* Only the entry with the platform prefix protects.
is_protectedPrefixed(keep, platform, id) == PlatformId(platform, id) \in keep

is_protected(keep, platform, id) ==
    PlatformId(platform, id) \in keep \/ id \in keep

\* A file on disk: whether it exists, whether it can be read, its characters.
Missing == [exists |-> FALSE, readable |-> FALSE, contents |-> <<>>]
Unreadable == [exists |-> TRUE, readable |-> FALSE, contents |-> <<>>]
FileOf(c) == [exists |-> TRUE, readable |-> TRUE, contents |-> c]

\* char::is_whitespace, for the characters a line can hold.
Whitespace == {" "}

\* str::lines: the parts between line feeds; no last empty line.
RECURSIVE Lines(_)
Lines(s) ==
    IF s = <<>> THEN <<>>
    ELSE LET nl == {i \in 1..Len(s) : s[i] = "\n"}
         IN IF nl = {} THEN <<s>>
            ELSE LET i == CHOOSE k \in nl : \A j \in nl : k <= j
                 IN <<SubSeq(s, 1, i - 1)>> \o Lines(SubSeq(s, i + 1, Len(s)))

\* str::trim
RECURSIVE TrimStart(_)
TrimStart(l) ==
    IF l # <<>> /\ l[1] \in Whitespace THEN TrimStart(Tail(l)) ELSE l
RECURSIVE TrimEnd(_)
TrimEnd(l) ==
    IF l # <<>> /\ l[Len(l)] \in Whitespace
    THEN TrimEnd(SubSeq(l, 1, Len(l) - 1)) ELSE l
Trim(l) == TrimEnd(TrimStart(l))

\* The filter looks at the lines as they are in the file, before trimming.
load_keep_listRaw(file) ==
    IF ~file.exists \/ ~file.readable THEN {}
    ELSE LET ls == Lines(file.contents)
         IN {Trim(ls[i]) : i \in {j \in DOMAIN ls : ls[j] # <<>> /\ ls[j][1] # "#"}}

load_keep_list(file) ==
    IF ~file.exists THEN {}
    ELSE IF ~file.readable THEN {}
    ELSE LET ls == Lines(file.contents)
             trimmed == [i \in DOMAIN ls |-> Trim(ls[i])]
         IN {trimmed[i] : i \in {j \in DOMAIN ls :
                                    trimmed[j] # <<>> /\ trimmed[j][1] # "#"}}

\* str::split: the pieces between the separators, one piece when there is none.
RECURSIVE Split(_, _)
Split(s, sep) ==
    LET at == {i \in 1..Len(s) : s[i] = sep}
    IN IF at = {} THEN <<s>>
       ELSE LET i == CHOOSE k \in at : \A j \in at : k <= j
            IN <<SubSeq(s, 1, i - 1)>> \o Split(SubSeq(s, i + 1, Len(s)), sep)

RelNext == "rel=\"next\""
RelPrev == "rel=\"prev\""
\* What one turn of the for loop of parse_max_id_from_link does: it returns
\* from the function with val, or goes on to the next part.
Return(v) == [ret |-> TRUE, val |-> v]
Continue == [ret |-> FALSE, val |-> None]
\* mastodon.rs 321-328: the URL between '<' and '>', its query, the first
\* parameter that starts with max_id=.
NextPart(part) ==
    LET t == Trim(part)
    IN IF t = <<>> \/ t[1] # "<" THEN Return(None)
       ELSE LET url == Split(Tail(t), ">")[1]
                q == Split(url, "?")
            IN IF Len(q) < 2 THEN Return(None)
               ELSE LET params == Split(q[2], "&")
                        hits == {i \in DOMAIN params :
                                   params[i] # <<>> /\ params[i][1] = "max_id="}
                    IN IF hits = {} THEN Continue
                       ELSE Return(Some(Tail(params[CHOOSE i \in hits :
                                                       \A j \in hits : i <= j])))

\* The for loop taking every part for the next one.
ParsePartAnyRel(part) == NextPart(part)

\* mastodon.rs 319-329: the body of the for loop.
ParsePart(part) ==
    IF \E i \in DOMAIN part : part[i] = RelNext THEN NextPart(part) ELSE Continue

RECURSIVE ParseParts(_)
ParseParts(parts) ==
    IF parts = <<>> THEN None
    ELSE LET r == ParsePart(Head(parts))
         IN IF r.ret THEN r.val ELSE ParseParts(Tail(parts))

parse_max_id_from_link(link) == ParseParts(Split(link, ","))

\* list_favourites 117: link_header.as_deref().and_then(parse_max_id_from_link)
NextMaxId(header) ==
    IF header = None THEN None ELSE parse_max_id_from_link(header[1])

\* A Link header as the server writes it: parts of <url?query>; rel="...",
\* joined by a comma and a blank.
Favourites_url == "https://instance/api/v1/favourites"
RECURSIVE Join(_, _)
Join(pieces, sep) ==
    IF pieces = <<>> THEN <<>>
    ELSE IF Len(pieces) = 1 THEN pieces[1]
    ELSE pieces[1] \o sep \o Join(Tail(pieces), sep)
LinkPart(params, rel) ==
    <<"<", Favourites_url, "?">> \o Join(params, <<"&">>) \o <<">", ";", " ", rel>>
Link(parts) == Join([i \in DOMAIN parts |-> LinkPart(parts[i].params, parts[i].rel)],
                    <<",", " ">>)

\* The record URI taken whole for the rkey.
RkeyWhole(uri) == uri

\* record.uri.rsplit('/').next(): the part after the last '/', the whole
\* string when it has none.
RECURSIVE LastSlash(_, _)
LastSlash(s, i) ==
    IF i = 0 THEN 0 ELSE IF s[i] = "/" THEN i ELSE LastSlash(s, i - 1)
Rkey(uri) == SubSeq(uri, LastSlash(uri, Len(uri)) + 1, Len(uri))

\* ------------------------------------------------------------- collections
Post == "app.bsky.feed.post"
Repost == "app.bsky.feed.repost"
Like == "app.bsky.feed.like"
Statuses == "statuses"
Favourites == "favourites"
BskyCollections == {Post, Repost, Like}
MastoCollections == {Statuses, Favourites}
Collections == BskyCollections \cup MastoCollections

Did == "at://did:plc:user"
\* at://<did>/<collection>/<rkey>
AtUri(coll, rkey) == <<Did, "/", coll, "/">> \o rkey
\* The id the platform gave the n-th record of a collection.
IdOf(n) == <<ToString(n)>>

\* The id a delete call names: the rkey of a Bluesky record, the id of a status.
RecId(coll, r) == IF coll \in BskyCollections THEN Rkey(r.uri) ELSE r.id


\* ------------------------------------------------------------------- state
VARIABLES
    config,       \* Config: cutoff and the four flags (main.rs)
    keep_file,    \* the file KEEP_FILE names
    keep_list,    \* the set load_keep_list returned
    run,          \* how many times the schedule has started the process
    creds,        \* which platforms have their environment variables set
    server,       \* collection -> the records the platform holds, in listing order
    pinned_post,  \* the pinnedPost of the Bluesky profile record
    gone,         \* <<collection, id>> of the records deleted on the platform
    pc,           \* where the process is
    had_errors,   \* main: a platform run returned Err
    result,       \* what each platform run and the process returned
    session,      \* HttpBlueskyClient.session, the OnceLock: None or Some(did)
    pinned_uri,   \* bluesky delete_old_posts: the pinned lookup's answer
    collection,   \* the collection of the pass in progress
    cursor,       \* cursor / max_id / fav_max_id of the pass in progress
    page,         \* the records of the fetched page still to be visited
    resp_cursor,  \* resp.cursor / next_max_id that came with the page
    link_header,  \* the Link header of the last favourites response
    counters,     \* deleted, skipped_pinned, skipped_kept, skipped_reposts
    calls,        \* every client call made so far, in order, with its outcome
    evaluated,    \* <<collection, id>> of every record the for loops visited
    summary       \* collection -> the counters its summary line reported

inputs == <<config, keep_file, keep_list, creds, run>>
platform == <<server, pinned_post, gone>>
locals == <<session, pinned_uri, collection, cursor, page, resp_cursor, link_header,
            counters>>
observed == <<calls, evaluated, summary>>
control == <<pc, had_errors, result>>
vars == <<inputs, platform, locals, observed, control>>

Zero == [deleted |-> 0, skipped_pinned |-> 0, skipped_kept |-> 0, skipped_reposts |-> 0]
Bump(c, field) == [c EXCEPT ![field] = @ + 1]

\* ------------------------------------------------------------- the servers
Min(a, b) == IF a < b THEN a ELSE b

Exists(coll, r) == <<coll, RecId(coll, r)>> \notin gone

\* The position of the record a cursor names; 0 for no cursor.
PosOf(coll, cur) ==
    LET at == {p \in 1..Len(server[coll]) : RecId(coll, server[coll][p]) = cur[1]}
    IN IF cur = None \/ at = {} THEN 0 ELSE CHOOSE p \in at : TRUE

\* The positions after the cursor that still hold a record, in listing order.
Remaining(coll, cur) ==
    SelectSeq([p \in 1..Len(server[coll]) |-> p],
              LAMBDA p : p > PosOf(coll, cur) /\ Exists(coll, server[coll][p]))

\* The page of at most k records after the cursor.
ServerPage(coll, cur, k) ==
    LET rem == Remaining(coll, cur)
    IN [i \in 1..Min(k, Len(rem)) |-> server[coll][rem[i]]]

\* The continuation cursors that may come with that page: the id of its last
\* record while records remain after it; on the last page the server may send
\* that cursor or none.
ServerCursors(coll, cur, k) ==
    LET rem == Remaining(coll, cur)
        pg == ServerPage(coll, cur, k)
        last == Some(RecId(coll, pg[Len(pg)]))
    IN IF pg = <<>> THEN {None}
       ELSE IF Len(rem) > Len(pg) THEN {last}
       ELSE {None, last}

\* The query parameters of the links of a favourites page.
Limit == <<"limit=", "40">>
MinId == <<"min_id=", "9">>
MaxIdParam(id) == <<"max_id=">> \o id
\* The Link header that comes with a favourites page whose continuation is c:
\* a next link and a prev link, on the last page the prev link alone.
ServerLink(c) ==
    IF c = None
    THEN Some(Link(<<[params |-> <<Limit, MinId>>, rel |-> RelPrev]>>))
    ELSE Some(Link(<<[params |-> <<Limit, MaxIdParam(c[1])>>, rel |-> RelNext],
                     [params |-> <<Limit, MinId>>, rel |-> RelPrev]>>))

\* Client calls that have failed so far.
Faults == Cardinality({i \in DOMAIN calls : calls[i].res \notin {"ok"}})
MayFail == Faults < MaxFaults

Call(op, coll, arg, res) == [op |-> op, coll |-> coll, arg |-> arg, res |-> res]

\* ------------------------------------------------------------------ inputs
Configs ==
    [cutoff : {Cutoff}, dry_run : BOOLEAN, delete_pinned : BOOLEAN,
     delete_reposts : BOOLEAN, delete_likes : BOOLEAN]

\* The entries a keep file may hold: all of them name record 1.
KeepEntries ==
    {PlatformId("bluesky", IdOf(1)), PlatformId("mastodon", IdOf(1)), IdOf(1),
     AtUri(Post, IdOf(1)), PlatformId("bluesky", AtUri(Post, IdOf(1)))}
\* The keep file is missing, or holds a comment line, an empty line and one
\* entry with blanks around it.
KeepFiles ==
    {Missing} \cup
    {FileOf(<<"#", " ", "keep", "\n", "\n", " ">> \o e \o <<" ", "\n">>) :
        e \in KeepEntries}
\* load_keep_list returned no entry or one of them.
KeepLists == {load_keep_list(f) : f \in KeepFiles}
\* Every keep file of at most MaxFile characters, and none.
KeepChars == {" ", "#", "\n", "a"}
AllKeepFiles ==
    {Missing, Unreadable} \cup
    {FileOf(c) : c \in UNION {[1..n -> KeepChars] : n \in 0..MaxFile}}

\* The first post and the first status are the records the keep file and the
\* profile may name: their shape is free.  Every other record is a plain one,
\* older or newer than the cutoff.
PlainCreated == {TsOld, TsNew}
\* createdAt of a Bluesky record is optional.
BskyShapes(coll, n) ==
    IF coll = Post /\ n = 1 THEN {None} \cup {Some(t) : t \in TsStrings}
    ELSE {Some(t) : t \in PlainCreated}
BskyRecord(coll, n, created) == [uri |-> AtUri(coll, IdOf(n)), created_at |-> created]
StatusShapes(coll, n) ==
    IF coll = Statuses /\ n = 1
    THEN [created_at : TsStrings, pinned : BOOLEAN, reblog : BOOLEAN]
    ELSE [created_at : PlainCreated, pinned : {FALSE}, reblog : {FALSE}]
Status(n, shape) ==
    [id |-> IdOf(n), created_at |-> shape.created_at, pinned |-> shape.pinned,
     reblog |-> shape.reblog]
\* The ways to fill the n places of a collection, place i from shapes(coll, i).
Fill(coll, n, shapes(_, _)) ==
    {f \in [1..n -> UNION {shapes(coll, i) : i \in 1..n}] :
        \A i \in 1..n : f[i] \in shapes(coll, i)}

PinnedPosts == {None, Some(AtUri(Post, IdOf(1)))}

\* One platform configured per run.
OnePlatform ==
    {[bluesky |-> TRUE, mastodon |-> FALSE], [bluesky |-> FALSE, mastodon |-> TRUE]}

Sizes(cr) ==
    {sz \in [Collections -> 0..MaxRecs] :
        /\ sz[Post] + sz[Repost] + sz[Like] <= (IF cr.bluesky THEN MaxRecs ELSE 0)
        /\ sz[Statuses] + sz[Favourites] <= (IF cr.mastodon THEN MaxRecs ELSE 0)}

\* Any set of platforms configured, none and both included.
AnyPlatforms == [bluesky : BOOLEAN, mastodon : BOOLEAN]

\* The sizes of the collections when the accounts hold MaxAll records in all.
SizesAll(cr) ==
    {sz \in Sizes(cr) :
        sz[Post] + sz[Repost] + sz[Like] + sz[Statuses] + sz[Favourites] <= MaxAll}

\* The state as main is about to load the keep list, the keep file drawn from
\* files, the credentials from credsets and the sizes of the collections from
\* sizes(creds).
InitPlatforms(files, credsets, sizes(_)) ==
    /\ config \in Configs
    /\ keep_file \in files
    /\ run = 1
    /\ creds \in credsets
    /\ pinned_post \in (IF creds.bluesky THEN PinnedPosts ELSE {None})
    /\ \E sz \in sizes(creds) :
         \E po \in Fill(Post, sz[Post], BskyShapes),
            re \in Fill(Repost, sz[Repost], BskyShapes),
            li \in Fill(Like, sz[Like], BskyShapes),
            st \in Fill(Statuses, sz[Statuses], StatusShapes),
            fa \in Fill(Favourites, sz[Favourites], StatusShapes) :
           server = [c \in Collections |->
                       CASE c = Post -> [n \in 1..sz[Post] |-> BskyRecord(Post, n, po[n])]
                         [] c = Repost -> [n \in 1..sz[Repost] |-> BskyRecord(Repost, n, re[n])]
                         [] c = Like -> [n \in 1..sz[Like] |-> BskyRecord(Like, n, li[n])]
                         [] c = Statuses -> [n \in 1..sz[Statuses] |-> Status(n, st[n])]
                         [] OTHER -> [n \in 1..sz[Favourites] |-> Status(n, fa[n])]]
    /\ gone = {}

InitSized(files, credsets, sizes(_)) ==
    /\ InitPlatforms(files, credsets, sizes)
    /\ keep_list = {}
    /\ pc = "load_keep_list"
    /\ had_errors = FALSE
    /\ result = [bluesky |-> "none", mastodon |-> "none", process |-> "none"]
    /\ session = None
    /\ pinned_uri = None
    /\ collection = Post
    /\ cursor = None
    /\ page = <<>>
    /\ resp_cursor = None
    /\ link_header = None
    /\ counters = Zero
    /\ calls = <<>>
    /\ evaluated = <<>>
    /\ summary = [c \in Collections |-> None]

InitWith(credsets) == InitSized(KeepFiles, credsets, Sizes)

Init == InitWith(OnePlatform)

InitAll == InitSized(KeepFiles, AnyPlatforms, SizesAll)

\* No platform configured, any keep file.
NoPlatform == {[bluesky |-> FALSE, mastodon |-> FALSE]}
InitKeepFile == InitSized(AllKeepFiles, NoPlatform, Sizes)


\* ------------------------------------------------------------------- calls
Outcomes == {"ok"} \cup (IF MayFail THEN {"err"} ELSE {})
\* A delete call fails with a rate-limit error (429) or with another error.
DeleteOutcomes == {"ok"} \cup (IF MayFail THEN {"err", "429"} ELSE {})

\* -------------------------------------------------------------------- main
\* main.rs 132-137, with the platform results res and the error flag err.
MainExit(res, err) ==
    /\ pc' = "exited"
    /\ had_errors' = err
    /\ result' = [res EXCEPT !.process = IF err THEN "Err" ELSE "Ok"]

\* The Mastodon run is entered whatever the environment holds.
MainMastodonAlways(res, err) ==
    pc' = "masto_verify_credentials" /\ result' = res /\ had_errors' = err

\* main.rs 116-130: the Mastodon run is entered, or skipped with a warning.
MainMastodon(res, err) ==
    IF creds.mastodon
    THEN pc' = "masto_verify_credentials" /\ result' = res /\ had_errors' = err
    ELSE MainExit([res EXCEPT !.mastodon = "skipped"], err)

\* main returns at once when the Bluesky run failed.
BlueskyReturnsAbort(r) ==
    IF r = "Err"
    THEN MainExit([result EXCEPT !.bluesky = r, !.mastodon = "skipped"], TRUE)
    ELSE MainMastodon([result EXCEPT !.bluesky = r], had_errors)

\* main takes every result of the Bluesky run for Ok.
BlueskyReturnsOk(r) ==
    MainMastodon([result EXCEPT !.bluesky = "Ok"], had_errors)

\* bluesky::delete_old_posts returns r to main (main.rs 105-111).
BlueskyReturns(r) ==
    MainMastodon([result EXCEPT !.bluesky = r], had_errors \/ r = "Err")

\* main keeps only the result of the platform that ran last.
MastodonReturnsLast(r) ==
    MainExit([result EXCEPT !.mastodon = r], r = "Err")

\* A Mastodon run that never returns Ok.
MastodonReturnsErr(r) ==
    MainExit([result EXCEPT !.mastodon = "Err"], TRUE)

\* mastodon::delete_old_posts returns r to main (main.rs 124-127).
MastodonReturns(r) ==
    MainExit([result EXCEPT !.mastodon = r], had_errors \/ r = "Err")

\* main.rs 76-77: the keep list is loaded before any platform is touched.
LoadKeepList ==
    /\ pc = "load_keep_list"
    /\ keep_list' = load_keep_list(keep_file)
    /\ pc' = "main"
    /\ UNCHANGED <<config, keep_file, creds, run, platform, locals, observed,
                   had_errors, result>>

\* main.rs 94-114: the Bluesky run is entered, or skipped with a warning.
MainStart ==
    /\ pc = "main"
    /\ IF creds.bluesky
       THEN pc' = "bsky_create_session" /\ UNCHANGED <<had_errors, result>>
       ELSE MainMastodon([result EXCEPT !.bluesky = "skipped"], had_errors)
    /\ UNCHANGED <<inputs, platform, locals, observed>>

\* The locals of a pass as its loop is entered.
StartPass(coll) ==
    /\ collection' = coll
    /\ cursor' = None
    /\ counters' = Zero
    /\ page' = <<>>
    /\ resp_cursor' = None

\* The locals a function leaves behind when it returns with counters cnt.
LeavePass(cnt) ==
    /\ counters' = cnt
    /\ page' = <<>>
    /\ UNCHANGED <<collection, cursor, resp_cursor>>

\* ----------------------------------------------------------------- bluesky
\* The session is never stored.
SessionSetNever(s) == s

\* OnceLock::set (bluesky.rs 102-105): stores the session if none is stored.
SessionSet(s) == IF s = None THEN Some(Did) ELSE s

BskyCreateSession ==
    /\ pc = "bsky_create_session"
    /\ \E res \in Outcomes :
         /\ calls' = Append(calls, Call("create_session", "", None, res))
         /\ IF res = "ok"
            THEN /\ session' = SessionSet(session)
                 /\ pc' = "bsky_get_pinned"
                 /\ UNCHANGED <<had_errors, result>>
            ELSE /\ session' = session
                 /\ BlueskyReturns("Err")
    /\ UNCHANGED <<inputs, link_header, platform, pinned_uri, collection, cursor, page,
                   resp_cursor, counters, evaluated, summary>>

\* The lookup is made whatever the flag says.
LooksUpPinnedAlways == TRUE

\* delete_old_posts 286: the pinned post is looked up unless pinned posts are
\* to be deleted too.
LooksUpPinned == ~config.delete_pinned

\* delete_old_posts 285-290, then the posts pass is entered.
BskyGetPinned ==
    /\ pc = "bsky_get_pinned"
    /\ IF LooksUpPinned
       THEN \E res \in Outcomes :
              /\ calls' = Append(calls, Call("get_pinned_post_uri", "", None, res))
              /\ pinned_uri' = (IF res = "ok" THEN pinned_post ELSE None)
       ELSE /\ pinned_uri' = None
            /\ calls' = calls
    /\ StartPass(Post)
    /\ pc' = "bsky_list_records"
    /\ UNCHANGED <<inputs, link_header, platform, session, evaluated, summary, had_errors, result>>

\* The pinned_uri argument of the pass: the lookup's answer for posts, None
\* for reposts and likes.
PassPinned == IF collection = Post THEN pinned_uri ELSE None

\* The likes are walked before the reposts.
BskyNextCollectionLikesFirst(coll) ==
    IF coll = Post /\ config.delete_likes THEN Some(Like)
    ELSE IF coll \in {Post, Like} /\ config.delete_reposts THEN Some(Repost)
    ELSE None

\* Every collection is walked, whatever the flags say.
BskyNextCollectionAll(coll) ==
    IF coll = Post THEN Some(Repost)
    ELSE IF coll = Repost THEN Some(Like)
    ELSE None

\* The collection delete_old_posts walks after this one, None when it returns.
BskyNextCollection(coll) ==
    IF coll = Post /\ config.delete_reposts THEN Some(Repost)
    ELSE IF coll \in {Post, Repost} /\ config.delete_likes THEN Some(Like)
    ELSE None

\* delete_old_records returns Ok(DeleteResult) with counters cnt;
\* delete_old_posts logs the summary and enters the next pass or returns Ok.
BskyEndPass(cnt) ==
    /\ summary' = [summary EXCEPT ![collection] = Some(cnt)]
    /\ LET next == BskyNextCollection(collection)
       IN IF next # None
          THEN /\ StartPass(next[1])
               /\ pc' = "bsky_list_records"
               /\ UNCHANGED <<had_errors, result>>
          ELSE /\ BlueskyReturns("Ok")
               /\ LeavePass(cnt)

\* A failed fetch is logged and the pass ends with what it has counted.
BskyListFailedIsLogged == BskyEndPass(counters)

\* delete_old_records 197 and delete_old_posts 302, 321, 340: the error of
\* list_records goes up to main through the two `?`.
BskyListFailed ==
    /\ BlueskyReturns("Err")
    /\ UNCHANGED <<collection, cursor, page, resp_cursor, counters, summary>>

\* delete_old_records 193-199.
BskyListRecords ==
    /\ pc = "bsky_list_records"
    /\ \E res \in Outcomes :
         /\ calls' = Append(calls, Call("list_records", collection, cursor, res))
         /\ IF res = "ok"
            THEN \E k \in 1..MaxPage :
                   LET records == ServerPage(collection, cursor, k)
                   IN IF records = <<>>
                      THEN BskyEndPass(counters)
                      ELSE /\ page' = records
                           /\ resp_cursor' \in ServerCursors(collection, cursor, k)
                           /\ pc' = "bsky_for"
                           /\ UNCHANGED <<collection, cursor, counters, summary,
                                          had_errors, result>>
            ELSE BskyListFailed
    /\ UNCHANGED <<inputs, link_header, platform, session, pinned_uri, evaluated>>

\* The body of the for loop keeping only what is after the cutoff.
BskyVerdictAfter(record, pinned) ==
    IF record.created_at = None THEN "missing"
    ELSE LET post_time == parse_timestamp(record.created_at[1])
         IN IF ~post_time.ok THEN "unparsable"
            ELSE IF post_time.utc > config.cutoff THEN "recent"
            ELSE IF pinned = Some(record.uri) THEN "pinned"
            ELSE IF \/ is_protected(keep_list, "bluesky", Rkey(record.uri))
                    \/ is_protected(keep_list, "bluesky", record.uri)
                 THEN "kept"
            ELSE IF config.dry_run THEN "dry_run"
            ELSE "delete"

\* The body of the for loop without its dry-run branch.
BskyVerdictLive(record, pinned) ==
    IF record.created_at = None THEN "missing"
    ELSE LET post_time == parse_timestamp(record.created_at[1])
         IN IF ~post_time.ok THEN "unparsable"
            ELSE IF post_time.utc >= config.cutoff THEN "recent"
            ELSE IF pinned = Some(record.uri) THEN "pinned"
            ELSE IF \/ is_protected(keep_list, "bluesky", Rkey(record.uri))
                    \/ is_protected(keep_list, "bluesky", record.uri)
                 THEN "kept"
            ELSE "delete"

\* What the body of the for loop of delete_old_records does with one record.
BskyVerdict(record, pinned) ==
    IF record.created_at = None THEN "missing"
    ELSE LET post_time == parse_timestamp(record.created_at[1])
         IN IF ~post_time.ok THEN "unparsable"
            ELSE IF post_time.utc >= config.cutoff THEN "recent"
            ELSE IF pinned = Some(record.uri) THEN "pinned"
            ELSE IF \/ is_protected(keep_list, "bluesky", Rkey(record.uri))
                    \/ is_protected(keep_list, "bluesky", record.uri)
                 THEN "kept"
            ELSE IF config.dry_run THEN "dry_run"
            ELSE "delete"

\* A walk that takes the listing for sorted and ends the pass at the first
\* record that is not older than the cutoff.
BskyAfterRecordSorted(cnt) ==
    IF BskyVerdict(Head(page), PassPinned) = "recent" THEN BskyEndPass(cnt)
    ELSE IF Tail(page) # <<>>
    THEN /\ page' = Tail(page)
         /\ counters' = cnt
         /\ UNCHANGED <<pc, collection, cursor, resp_cursor, summary, had_errors, result>>
    ELSE IF resp_cursor # None
    THEN /\ page' = <<>>
         /\ counters' = cnt
         /\ cursor' = resp_cursor
         /\ pc' = "bsky_list_records"
         /\ UNCHANGED <<collection, resp_cursor, summary, had_errors, result>>
    ELSE BskyEndPass(cnt)

\* A pass that asks for the page it has just walked once more.
BskyAfterRecordSameCursor(cnt) ==
    IF Tail(page) # <<>>
    THEN /\ page' = Tail(page)
         /\ counters' = cnt
         /\ UNCHANGED <<pc, collection, cursor, resp_cursor, summary, had_errors, result>>
    ELSE IF resp_cursor # None
    THEN /\ page' = <<>>
         /\ counters' = cnt
         /\ pc' = "bsky_list_records"
         /\ UNCHANGED <<collection, cursor, resp_cursor, summary, had_errors, result>>
    ELSE BskyEndPass(cnt)

\* A pass that never asks for a second page.
BskyAfterRecordOnePage(cnt) ==
    IF Tail(page) # <<>>
    THEN /\ page' = Tail(page)
         /\ counters' = cnt
         /\ UNCHANGED <<pc, collection, cursor, resp_cursor, summary, had_errors, result>>
    ELSE BskyEndPass(cnt)

\* After the body of the for loop, with counters cnt: the next record of the
\* page, or lines 261-264 at the end of the page.
BskyAfterRecord(cnt) ==
    IF Tail(page) # <<>>
    THEN /\ page' = Tail(page)
         /\ counters' = cnt
         /\ UNCHANGED <<pc, collection, cursor, resp_cursor, summary, had_errors, result>>
    ELSE IF resp_cursor # None
    THEN /\ page' = <<>>
         /\ counters' = cnt
         /\ cursor' = resp_cursor
         /\ pc' = "bsky_list_records"
         /\ UNCHANGED <<collection, resp_cursor, summary, had_errors, result>>
    ELSE BskyEndPass(cnt)

\* delete_old_records 201-259: one turn of the for loop.
BskyRecordStep ==
    /\ pc = "bsky_for"
    /\ LET record == Head(page)
           rkey == Rkey(record.uri)
           verdict == BskyVerdict(record, PassPinned)
       IN /\ evaluated' = Append(evaluated, <<collection, rkey>>)
          /\ IF verdict = "delete"
             THEN \E res \in DeleteOutcomes :
                    /\ calls' = Append(calls, Call("delete_record", collection, rkey, res))
                    /\ gone' = (IF res = "ok" THEN gone \cup {<<collection, rkey>>} ELSE gone)
                    /\ BskyAfterRecord(IF res = "ok" THEN Bump(counters, "deleted")
                                       ELSE counters)
             ELSE /\ UNCHANGED <<calls, gone>>
                  /\ BskyAfterRecord(
                       CASE verdict = "pinned" -> Bump(counters, "skipped_pinned")
                         [] verdict = "kept" -> Bump(counters, "skipped_kept")
                         [] verdict = "dry_run" -> Bump(counters, "deleted")
                         [] OTHER -> counters)
    /\ UNCHANGED <<inputs, link_header, server, pinned_post, session, pinned_uri>>

\* ---------------------------------------------------------------- mastodon
\* A run that goes on to the statuses when verify_credentials has failed.
MastoVerifyCredentialsUnchecked ==
    /\ pc = "masto_verify_credentials"
    /\ \E res \in Outcomes :
         calls' = Append(calls, Call("verify_credentials", "", None, res))
    /\ StartPass(Statuses)
    /\ pc' = "masto_list_statuses"
    /\ UNCHANGED <<had_errors, result>>
    /\ UNCHANGED <<inputs, link_header, platform, session, pinned_uri, evaluated, summary>>

\* delete_old_posts 143-150: verify_credentials, then the statuses locals.
MastoVerifyCredentials ==
    /\ pc = "masto_verify_credentials"
    /\ \E res \in Outcomes :
         /\ calls' = Append(calls, Call("verify_credentials", "", None, res))
         /\ IF res = "ok"
            THEN /\ StartPass(Statuses)
                 /\ pc' = "masto_list_statuses"
                 /\ UNCHANGED <<had_errors, result>>
            ELSE /\ MastodonReturns("Err")
                 /\ UNCHANGED <<collection, cursor, counters, page, resp_cursor>>
    /\ UNCHANGED <<inputs, link_header, platform, session, pinned_uri, evaluated, summary>>

\* delete_old_posts 309-312: the favourites summary, then Ok.
MastoFavouritesEnd(cnt) ==
    /\ summary' = [summary EXCEPT ![Favourites] = Some(cnt)]
    /\ MastodonReturns("Ok")
    /\ LeavePass(cnt)

\* After a rate-limit error the run returns without the favourites pass.
MastoStatusesEndRateLimited(cnt) ==
    /\ summary' = [summary EXCEPT ![Statuses] = Some(cnt)]
    /\ IF config.delete_likes /\ \A i \in DOMAIN calls : calls[i].res # "429"
       THEN /\ StartPass(Favourites)
            /\ pc' = "masto_list_favourites"
            /\ UNCHANGED <<had_errors, result>>
       ELSE /\ MastodonReturns("Ok")
            /\ LeavePass(cnt)

\* delete_old_posts 230-239: the statuses summary, then the favourites or Ok.
MastoStatusesEnd(cnt) ==
    /\ summary' = [summary EXCEPT ![Statuses] = Some(cnt)]
    /\ IF config.delete_likes
       THEN /\ StartPass(Favourites)
            /\ pc' = "masto_list_favourites"
            /\ UNCHANGED <<had_errors, result>>
       ELSE /\ MastodonReturns("Ok")
            /\ LeavePass(cnt)

\* The next request starts below the first status of the page.
max_idFirst(statuses) == Some(statuses[1].id)

\* delete_old_posts 159: the next request starts below the last status of
\* the page.
max_id(statuses) == Some(statuses[Len(statuses)].id)

\* delete_old_posts 153-159: the page, the empty-page break, max_id.
MastoListStatuses ==
    /\ pc = "masto_list_statuses"
    /\ \E res \in Outcomes :
         /\ calls' = Append(calls, Call("list_statuses", Statuses, cursor, res))
         /\ IF res = "ok"
            THEN \E k \in 1..MaxPage :
                   LET statuses == ServerPage(Statuses, cursor, k)
                   IN IF statuses = <<>>
                      THEN MastoStatusesEnd(counters)
                      ELSE /\ page' = statuses
                           /\ cursor' = max_id(statuses)
                           /\ pc' = "masto_for"
                           /\ UNCHANGED <<collection, resp_cursor, counters, summary,
                                          had_errors, result>>
            ELSE /\ MastodonReturns("Err")
                 /\ UNCHANGED <<collection, cursor, page, resp_cursor, counters, summary>>
    /\ UNCHANGED <<inputs, link_header, platform, session, pinned_uri, evaluated>>

\* The statuses for loop with the dry-run branch ahead of the skips.
StatusVerdictDryFirst(status) ==
    LET post_time == parse_timestamp(status.created_at)
    IN IF ~post_time.ok THEN "unparsable"
       ELSE IF post_time.utc >= config.cutoff THEN "recent"
       ELSE IF config.dry_run THEN "dry_run"
       ELSE IF status.reblog /\ ~config.delete_reposts THEN "repost"
       ELSE IF status.pinned /\ ~config.delete_pinned THEN "pinned"
       ELSE IF is_protected(keep_list, "mastodon", status.id) THEN "kept"
       ELSE "delete"

\* The statuses for loop without its pinned branch.
StatusVerdictNoPinned(status) ==
    LET post_time == parse_timestamp(status.created_at)
    IN IF ~post_time.ok THEN "unparsable"
       ELSE IF post_time.utc >= config.cutoff THEN "recent"
       ELSE IF status.reblog /\ ~config.delete_reposts THEN "repost"
       ELSE IF is_protected(keep_list, "mastodon", status.id) THEN "kept"
       ELSE IF config.dry_run THEN "dry_run"
       ELSE "delete"

\* The statuses for loop without its reblog branch.
StatusVerdictNoRepost(status) ==
    LET post_time == parse_timestamp(status.created_at)
    IN IF ~post_time.ok THEN "unparsable"
       ELSE IF post_time.utc >= config.cutoff THEN "recent"
       ELSE IF status.pinned /\ ~config.delete_pinned THEN "pinned"
       ELSE IF is_protected(keep_list, "mastodon", status.id) THEN "kept"
       ELSE IF config.dry_run THEN "dry_run"
       ELSE "delete"

\* The statuses for loop asking the keep list before the pinned flag.
StatusVerdictKeptFirst(status) ==
    LET post_time == parse_timestamp(status.created_at)
    IN IF ~post_time.ok THEN "unparsable"
       ELSE IF post_time.utc >= config.cutoff THEN "recent"
       ELSE IF status.reblog /\ ~config.delete_reposts THEN "repost"
       ELSE IF is_protected(keep_list, "mastodon", status.id) THEN "kept"
       ELSE IF status.pinned /\ ~config.delete_pinned THEN "pinned"
       ELSE IF config.dry_run THEN "dry_run"
       ELSE "delete"

\* What the body of the statuses for loop does with one status.
StatusVerdict(status) ==
    LET post_time == parse_timestamp(status.created_at)
    IN IF ~post_time.ok THEN "unparsable"
       ELSE IF post_time.utc >= config.cutoff THEN "recent"
       ELSE IF status.reblog /\ ~config.delete_reposts THEN "repost"
       ELSE IF status.pinned /\ ~config.delete_pinned THEN "pinned"
       ELSE IF is_protected(keep_list, "mastodon", status.id) THEN "kept"
       ELSE IF config.dry_run THEN "dry_run"
       ELSE "delete"

\* The for loop is left on every failed delete call.
StatusesAfterDeleteAnyError(rest, res) == IF res # "ok" THEN <<>> ELSE rest

\* The records of the page the for loop still visits after a delete call
\* ended with res: the break on a rate-limit error (line 219) leaves the for
\* loop, not the loop around it.
StatusesAfterDelete(rest, res) == IF res = "429" THEN <<>> ELSE rest

\* A statuses walk that reports after its first page.
MastoAfterStatusOnePage(rest, cnt) ==
    IF rest # <<>>
    THEN /\ page' = rest
         /\ counters' = cnt
         /\ UNCHANGED <<pc, collection, cursor, resp_cursor, summary, had_errors, result>>
    ELSE MastoStatusesEnd(cnt)

\* After the body of the statuses for loop: the next status of the page, or
\* the enclosing loop goes round again.
MastoAfterStatus(rest, cnt) ==
    /\ page' = rest
    /\ counters' = cnt
    /\ pc' = (IF rest # <<>> THEN "masto_for" ELSE "masto_list_statuses")
    /\ UNCHANGED <<collection, cursor, resp_cursor, summary, had_errors, result>>

\* delete_old_posts 161-227: one turn of the statuses for loop.
MastoStatusStep ==
    /\ pc = "masto_for"
    /\ LET status == Head(page)
           verdict == StatusVerdict(status)
       IN /\ evaluated' = Append(evaluated, <<Statuses, status.id>>)
          /\ IF verdict = "delete"
             THEN \E res \in DeleteOutcomes :
                    /\ calls' = Append(calls, Call("delete_status", Statuses, status.id, res))
                    /\ gone' = (IF res = "ok" THEN gone \cup {<<Statuses, status.id>>} ELSE gone)
                    /\ MastoAfterStatus(StatusesAfterDelete(Tail(page), res),
                                        IF res = "ok" THEN Bump(counters, "deleted")
                                        ELSE counters)
             ELSE /\ UNCHANGED <<calls, gone>>
                  /\ MastoAfterStatus(Tail(page),
                       CASE verdict = "repost" -> Bump(counters, "skipped_reposts")
                         [] verdict = "pinned" -> Bump(counters, "skipped_pinned")
                         [] verdict = "kept" -> Bump(counters, "skipped_kept")
                         [] verdict = "dry_run" -> Bump(counters, "deleted")
                         [] OTHER -> counters)
    /\ UNCHANGED <<inputs, link_header, server, pinned_post, session, pinned_uri>>

\* delete_old_posts 241-254: a failed fetch is logged and ends the loop.
MastoListFavourites ==
    /\ pc = "masto_list_favourites"
    /\ \E res \in Outcomes :
         /\ calls' = Append(calls, Call("list_favourites", Favourites, cursor, res))
         /\ IF res = "ok"
            THEN \E k \in 1..MaxPage :
                   LET favourites == ServerPage(Favourites, cursor, k)
                   IN \E c \in ServerCursors(Favourites, cursor, k) :
                        /\ link_header' = ServerLink(c)
                        /\ IF favourites = <<>>
                           THEN MastoFavouritesEnd(counters)
                           ELSE /\ page' = favourites
                                /\ resp_cursor' = NextMaxId(ServerLink(c))
                                /\ pc' = "masto_fav_for"
                                /\ UNCHANGED <<collection, cursor, counters, summary,
                                               had_errors, result>>
            ELSE /\ MastoFavouritesEnd(counters)
                 /\ UNCHANGED link_header
    /\ UNCHANGED <<inputs, platform, session, pinned_uri, evaluated>>

\* What the body of the favourites for loop does with one status.
FavouriteVerdict(status) ==
    LET post_time == parse_timestamp(status.created_at)
    IN IF ~post_time.ok THEN "unparsable"
       ELSE IF post_time.utc >= config.cutoff THEN "recent"
       ELSE IF is_protected(keep_list, "mastodon", status.id) THEN "kept"
       ELSE IF config.dry_run THEN "dry_run"
       ELSE "delete"

\* A favourites walk that does not follow next_max_id.
MastoAfterFavouriteOnePage(res, cnt) ==
    IF res = "429" THEN MastoFavouritesEnd(cnt)
    ELSE IF Tail(page) # <<>>
    THEN /\ page' = Tail(page)
         /\ counters' = cnt
         /\ UNCHANGED <<pc, collection, cursor, resp_cursor, summary, had_errors, result>>
    ELSE MastoFavouritesEnd(cnt)

\* A favourites walk whose break on a rate-limit error leaves only the for
\* loop.
MastoAfterFavouriteInnerBreak(res, cnt) ==
    IF res # "429" /\ Tail(page) # <<>>
    THEN /\ page' = Tail(page)
         /\ counters' = cnt
         /\ UNCHANGED <<pc, collection, cursor, resp_cursor, summary, had_errors, result>>
    ELSE IF resp_cursor # None
    THEN /\ page' = <<>>
         /\ counters' = cnt
         /\ cursor' = resp_cursor
         /\ pc' = "masto_list_favourites"
         /\ UNCHANGED <<collection, resp_cursor, summary, had_errors, result>>
    ELSE MastoFavouritesEnd(cnt)

\* After the body of the favourites for loop when unfavourite ended with res
\* ("ok" when it was not called): break 'favourites on a rate-limit error,
\* else the next status, or lines 303-306 at the end of the page.
MastoAfterFavourite(res, cnt) ==
    IF res = "429" THEN MastoFavouritesEnd(cnt)
    ELSE IF Tail(page) # <<>>
    THEN /\ page' = Tail(page)
         /\ counters' = cnt
         /\ UNCHANGED <<pc, collection, cursor, resp_cursor, summary, had_errors, result>>
    ELSE IF resp_cursor # None
    THEN /\ page' = <<>>
         /\ counters' = cnt
         /\ cursor' = resp_cursor
         /\ pc' = "masto_list_favourites"
         /\ UNCHANGED <<collection, resp_cursor, summary, had_errors, result>>
    ELSE MastoFavouritesEnd(cnt)

\* delete_old_posts 256-301: one turn of the favourites for loop.
MastoFavouriteStep ==
    /\ pc = "masto_fav_for"
    /\ LET status == Head(page)
           verdict == FavouriteVerdict(status)
       IN /\ evaluated' = Append(evaluated, <<Favourites, status.id>>)
          /\ IF verdict = "delete"
             THEN \E res \in DeleteOutcomes :
                    /\ calls' = Append(calls, Call("unfavourite", Favourites, status.id, res))
                    /\ gone' = (IF res = "ok" THEN gone \cup {<<Favourites, status.id>>} ELSE gone)
                    /\ MastoAfterFavourite(res, IF res = "ok" THEN Bump(counters, "deleted")
                                                ELSE counters)
             ELSE /\ UNCHANGED <<calls, gone>>
                  /\ MastoAfterFavourite("ok",
                       CASE verdict = "kept" -> Bump(counters, "skipped_kept")
                         [] verdict = "dry_run" -> Bump(counters, "deleted")
                         [] OTHER -> counters)
    /\ UNCHANGED <<inputs, link_header, server, pinned_post, session, pinned_uri>>

\* ----------------------------------------------------------- specification
Next ==
    \/ LoadKeepList
    \/ MainStart
    \/ BskyCreateSession
    \/ BskyGetPinned
    \/ BskyListRecords
    \/ BskyRecordStep
    \/ MastoVerifyCredentials
    \/ MastoListStatuses
    \/ MastoStatusStep
    \/ MastoListFavourites
    \/ MastoFavouriteStep

Spec == Init /\ [][Next]_vars

\* The same program over any set of configured platforms.
SpecAll == InitAll /\ [][Next]_vars

\* The keep file alone: every small file, loaded once.
NextKeepFile == LoadKeepList
SpecKeepFile == InitKeepFile /\ [][NextKeepFile]_vars

\* The Link headers of at most MaxParts parts, each with one or two query
\* parameters, the empty header and none.
LinkParams == {Limit, MinId, MaxIdParam(IdOf(1)), MaxIdParam(IdOf(2))}
LinkParts ==
    [params : UNION {[1..n -> LinkParams] : n \in 1..2}, rel : {RelNext, RelPrev}]
LinkDescs == UNION {[1..n -> LinkParts] : n \in 0..MaxParts}
AllLinks == {None} \cup {Some(Link(d)) : d \in LinkDescs}

MastodonOnly == {[bluesky |-> FALSE, mastodon |-> TRUE]}
\* An account with no status.
FavouriteSizes(cr) == {sz \in Sizes(cr) : sz[Statuses] = 0}
VerifiedAndListed ==
    <<Call("verify_credentials", "", None, "ok"), Call("list_statuses", Statuses, None, "ok")>>

\* The state as the Mastodon run, on an account with no status, enters its
\* favourites pass (mastodon.rs 235-239): at its first list_favourites call
\* or, for any Link header, in list_favourites with the response in hand.
InitLink ==
    /\ InitPlatforms(KeepFiles, MastodonOnly, FavouriteSizes)
    /\ config.delete_likes
    /\ keep_list = load_keep_list(keep_file)
    /\ had_errors = FALSE
    /\ result = [bluesky |-> "skipped", mastodon |-> "none", process |-> "none"]
    /\ session = None
    /\ pinned_uri = None
    /\ collection = Favourites
    /\ cursor = None
    /\ page = <<>>
    /\ resp_cursor = None
    /\ counters = Zero
    /\ evaluated = <<>>
    /\ summary = [c \in Collections |-> IF c = Statuses THEN Some(Zero) ELSE None]
    /\ \/ /\ pc = "masto_list_favourites"
          /\ link_header = None
          /\ calls = VerifiedAndListed
       \/ /\ pc = "masto_parse_link"
          /\ link_header \in AllLinks
          /\ server[Favourites] = <<>>
          /\ keep_file = Missing
          /\ config = [cutoff |-> Cutoff, dry_run |-> FALSE, delete_pinned |-> FALSE,
                       delete_reposts |-> FALSE, delete_likes |-> TRUE]
          /\ calls = Append(VerifiedAndListed,
                            Call("list_favourites", Favourites, None, "ok"))

\* list_favourites 111-120: the header of the response is read for the next
\* max_id.
ParseLink ==
    /\ pc = "masto_parse_link"
    /\ resp_cursor' = NextMaxId(link_header)
    /\ pc' = "masto_link_parsed"
    /\ UNCHANGED <<inputs, platform, session, pinned_uri, collection, cursor, page,
                   link_header, counters, observed, had_errors, result>>

\* The favourites pass alone, and the reading of any Link header.
NextLink == ParseLink \/ MastoListFavourites \/ MastoFavouriteStep
SpecLink == InitLink /\ [][NextLink]_vars

\* ----------------------------------------------------------------- threads
Threads == "threads"
ThreadsPost(n, ts) == [id |-> IdOf(n), timestamp |-> ts]
\* The first post is the one the keep file may name: its timestamp is free.
ThreadsShapes(coll, n) == IF n = 1 THEN TsStrings ELSE PlainCreated
ThreadsKeepFiles ==
    {Missing, FileOf(PlatformId("threads", IdOf(1)) \o <<"\n">>), FileOf(IdOf(1))}

\* The state as threads::delete_old_posts is called on an account of at most
\* MaxRecs posts.
InitThreads ==
    /\ config \in {c \in Configs : ~c.delete_pinned /\ ~c.delete_reposts /\ ~c.delete_likes}
    /\ keep_file \in ThreadsKeepFiles
    /\ keep_list = load_keep_list(keep_file)
    /\ run = 1
    /\ creds = [bluesky |-> FALSE, mastodon |-> FALSE]
    /\ pinned_post = None
    /\ \E n \in 0..MaxRecs : \E th \in Fill(Threads, n, ThreadsShapes) :
          server = [c \in Collections \cup {Threads} |->
                      IF c = Threads THEN [i \in 1..n |-> ThreadsPost(i, th[i])]
                      ELSE <<>>]
    /\ gone = {}
    /\ pc = "threads_list"
    /\ had_errors = FALSE
    /\ result = [bluesky |-> "none", mastodon |-> "none", process |-> "none",
                 threads |-> "none"]
    /\ session = None
    /\ pinned_uri = None
    /\ collection = Threads
    /\ cursor = None
    /\ page = <<>>
    /\ resp_cursor = None
    /\ link_header = None
    /\ counters = Zero
    /\ calls = <<>>
    /\ evaluated = <<>>
    /\ summary = [c \in Collections \cup {Threads} |-> None]

\* A delete request gets a success status, gets another status (a 4xx, a
\* 429, a 5xx), or fails in send() before any status comes back.
ThreadsDeleteOutcomes == {"ok"} \cup (IF MayFail THEN {"status", "send_err"} ELSE {})

\* threads::delete_old_posts returns r.
ThreadsReturns(r) ==
    /\ result' = [result EXCEPT !.threads = r]
    /\ pc' = "threads_returned"
    /\ UNCHANGED had_errors

\* threads.rs 119-120: the summary line, then Ok.
ThreadsEnd(cnt) ==
    /\ summary' = [summary EXCEPT ![Threads] = Some(cnt)]
    /\ ThreadsReturns("Ok")
    /\ LeavePass(cnt)

\* threads.rs 51-69: the page after the cursor is fetched.
ThreadsListPosts ==
    /\ pc = "threads_list"
    /\ \E res \in Outcomes :
         /\ calls' = Append(calls, Call("list_threads", Threads, cursor, res))
         /\ IF res = "ok"
            THEN \E k \in 1..MaxPage :
                   LET data == ServerPage(Threads, cursor, k)
                   IN IF data = <<>>
                      THEN ThreadsEnd(counters)
                      ELSE /\ page' = data
                           /\ resp_cursor' \in ServerCursors(Threads, cursor, k)
                           /\ pc' = "threads_for"
                           /\ UNCHANGED <<collection, cursor, counters, summary,
                                          had_errors, result>>
            ELSE /\ ThreadsReturns("Err")
                 /\ UNCHANGED <<collection, cursor, page, resp_cursor, counters, summary>>
    /\ UNCHANGED <<inputs, link_header, platform, session, pinned_uri, evaluated>>

\* threads.rs 72-94: what the body of the for loop does with one post.
ThreadsVerdict(post) ==
    LET post_time == parse_timestamp(post.timestamp)
    IN IF ~post_time.ok THEN "unparsable"
       ELSE IF post_time.utc >= config.cutoff THEN "recent"
       ELSE IF is_protected(keep_list, "threads", post.id) THEN "kept"
       ELSE IF config.dry_run THEN "dry_run"
       ELSE "delete"

\* threads.rs 112-116: the next post of the page, the next page, or the end.
ThreadsAfterPost(cnt) ==
    IF Tail(page) # <<>>
    THEN /\ page' = Tail(page)
         /\ counters' = cnt
         /\ UNCHANGED <<pc, collection, cursor, resp_cursor, summary, had_errors, result>>
    ELSE IF resp_cursor # None
    THEN /\ page' = <<>>
         /\ counters' = cnt
         /\ cursor' = resp_cursor
         /\ pc' = "threads_list"
         /\ UNCHANGED <<collection, resp_cursor, summary, had_errors, result>>
    ELSE ThreadsEnd(cnt)

\* threads.rs 71-110: one turn of the for loop.  The `?` on send() (line 99)
\* returns from the function; a response with another status is logged.
ThreadsPostStep ==
    /\ pc = "threads_for"
    /\ LET post == Head(page)
           verdict == ThreadsVerdict(post)
       IN /\ evaluated' = Append(evaluated, <<Threads, post.id>>)
          /\ IF verdict = "delete"
             THEN \E res \in ThreadsDeleteOutcomes :
                    /\ calls' = Append(calls, Call("delete_thread", Threads, post.id, res))
                    /\ gone' = (IF res = "ok" THEN gone \cup {<<Threads, post.id>>} ELSE gone)
                    /\ IF res = "send_err"
                       THEN /\ ThreadsReturns("Err")
                            /\ UNCHANGED <<collection, cursor, page, resp_cursor,
                                           counters, summary>>
                       ELSE ThreadsAfterPost(IF res = "ok" THEN Bump(counters, "deleted")
                                             ELSE counters)
             ELSE /\ UNCHANGED <<calls, gone>>
                  /\ ThreadsAfterPost(
                       CASE verdict = "kept" -> Bump(counters, "skipped_kept")
                         [] verdict = "dry_run" -> Bump(counters, "deleted")
                         [] OTHER -> counters)
    /\ UNCHANGED <<inputs, link_header, server, pinned_post, session, pinned_uri>>

NextThreads == ThreadsListPosts \/ ThreadsPostStep
SpecThreads == InitThreads /\ [][NextThreads]_vars

\* The schedule starts the process again on the same configuration, keep file
\* and accounts, after a live run in which every call succeeded.
Rerun ==
    /\ pc = "exited"
    /\ run < MaxRuns
    /\ ~config.dry_run
    /\ \A i \in DOMAIN calls : calls[i].res = "ok"
    /\ run' = run + 1
    /\ pc' = "load_keep_list"
    /\ keep_list' = {}
    /\ had_errors' = FALSE
    /\ result' = [bluesky |-> "none", mastodon |-> "none", process |-> "none"]
    /\ session' = None
    /\ pinned_uri' = None
    /\ collection' = Post
    /\ cursor' = None
    /\ page' = <<>>
    /\ resp_cursor' = None
    /\ link_header' = None
    /\ counters' = Zero
    /\ calls' = <<>>
    /\ evaluated' = <<>>
    /\ summary' = [c \in Collections |-> None]
    /\ UNCHANGED <<config, keep_file, creds, platform>>

NextRerun == Next \/ Rerun
SpecRerun == Init /\ [][NextRerun]_vars


\* ------------------------------------------------------- reading the state
\* The words of the claims, read off the platform's records and the log of
\* client calls, apart from the operators the actions use.
DeleteOps == {"delete_record", "delete_status", "unfavourite"}
ListOps == {"list_records", "list_statuses", "list_favourites"}
DeleteCalls == {i \in DOMAIN calls : calls[i].op \in DeleteOps}
ListCalls(coll) == {i \in DOMAIN calls : calls[i].op \in ListOps /\ calls[i].coll = coll}
Positions(coll) == 1..Len(server[coll])
Rec(coll, p) == server[coll][p]
\* The record a delete call names.
Deleted(i) ==
    CHOOSE r \in {Rec(calls[i].coll, p) : p \in Positions(calls[i].coll)} :
        RecId(calls[i].coll, r) = calls[i].arg
CalledDelete(coll, r) ==
    \E i \in DeleteCalls : calls[i].coll = coll /\ calls[i].arg = RecId(coll, r)
Visited(coll, r) == \E j \in DOMAIN evaluated : evaluated[j] = <<coll, RecId(coll, r)>>

Created(coll, r) ==
    IF coll \in BskyCollections THEN r.created_at ELSE Some(r.created_at)
HasTime(coll, r) ==
    Created(coll, r) # None /\ Created(coll, r)[1].fmt \in {"rfc3339", "%z"}
Instant(coll, r) == Created(coll, r)[1].local - Created(coll, r)[1].off
IsOld(coll, r) == HasTime(coll, r) /\ Instant(coll, r) < config.cutoff
NotOld(coll, r) == HasTime(coll, r) /\ Instant(coll, r) >= config.cutoff

PlatformOf(coll) == IF coll \in BskyCollections THEN "bluesky" ELSE "mastodon"
InKeepList(plat, id) == id \in keep_list \/ (<<plat, ":">> \o id) \in keep_list
\* Protected by the keep list: by its id, and a Bluesky record by its URI too.
Protected(coll, r) ==
    \/ InKeepList(PlatformOf(coll), RecId(coll, r))
    \/ coll \in BskyCollections /\ InKeepList("bluesky", r.uri)

\* The record is the account's pinned one.
IsPinned(coll, r) ==
    \/ coll = Post /\ pinned_post = Some(r.uri)
    \/ coll = Statuses /\ r.pinned
\* The pass skips the record as pinned, as a repost.
SkippedAsPinned(coll, r) == ~config.delete_pinned /\ IsPinned(coll, r)
SkippedAsRepost(coll, r) == coll = Statuses /\ r.reblog /\ ~config.delete_reposts
Eligible(coll, r) ==
    /\ IsOld(coll, r)
    /\ ~SkippedAsRepost(coll, r)
    /\ ~SkippedAsPinned(coll, r)
    /\ ~Protected(coll, r)

Reported(coll) == summary[coll] # None
AllCallsOk == \A i \in DOMAIN calls : calls[i].res = "ok"

\* ------------------------------------------------------------------ claims
\* C1: in every pass of every platform no delete call (delete_record,
\* delete_status, unfavourite) is issued for a record whose timestamp is at
\* or after the cutoff, whatever the flags, the keep list and the order of
\* the records within and across pages.
C1_NeverDeletesRecent ==
    \A i \in DeleteCalls : ~NotOld(calls[i].coll, Deleted(i))

\* A record stamped exactly at the cutoff was visited by a live pass that
\* went on to delete the older record listed after it.
C1_Witness ==
    \E coll \in Collections :
        /\ Len(server[coll]) = 2
        /\ Created(coll, Rec(coll, 1)) = Some(TsEq)
        /\ Visited(coll, Rec(coll, 1))
        /\ CalledDelete(coll, Rec(coll, 2))

\* C2: a record protected by the keep list is never passed to a delete call,
\* in dry-run or live mode, even when it is older than the cutoff and not
\* pinned.
C2_NeverDeletesProtected ==
    \A i \in DeleteCalls : ~Protected(calls[i].coll, Deleted(i))

\* A live pass reported a protected, old, unpinned record as kept and
\* deleted the record after it.
C2_Witness ==
    \E coll \in Collections :
        /\ Len(server[coll]) = 2
        /\ Protected(coll, Rec(coll, 1))
        /\ IsOld(coll, Rec(coll, 1))
        /\ ~IsPinned(coll, Rec(coll, 1))
        /\ Reported(coll)
        /\ summary[coll][1].skipped_kept = 1
        /\ CalledDelete(coll, Rec(coll, 2))

\* C3: with dry_run set no delete call is ever made on any platform, while
\* the list calls still happen: a run whose authentication succeeded has
\* listed the first collection of its platform.
C3_DryRunNeverDeletes ==
    config.dry_run =>
        /\ DeleteCalls = {}
        /\ gone = {}
        /\ (pc = "exited" /\ AllCallsOk) =>
              /\ creds.bluesky => ListCalls(Post) # {}
              /\ creds.mastodon => ListCalls(Statuses) # {}

\* A dry run ended after it counted an old record as deleted.
C3_Witness ==
    /\ config.dry_run
    /\ pc = "exited"
    /\ \E coll \in Collections :
          /\ Reported(coll)
          /\ summary[coll][1].deleted >= 1
          /\ ListCalls(coll) # {}

\* The counters a pass over the collection owes its records: each old record
\* counts once, under the first of repost, pinned, protected that applies,
\* else as deleted. The dry_run flag is not read.
Owed(coll) ==
    LET n(S) == Cardinality(S)
        old == {p \in Positions(coll) : IsOld(coll, Rec(coll, p))}
        reposts == {p \in old : SkippedAsRepost(coll, Rec(coll, p))}
        pins == {p \in old \ reposts : SkippedAsPinned(coll, Rec(coll, p))}
        kept == {p \in old \ (reposts \cup pins) : Protected(coll, Rec(coll, p))}
    IN [deleted |-> n(old \ (reposts \cup pins \cup kept)),
        skipped_pinned |-> n(pins),
        skipped_kept |-> n(kept),
        skipped_reposts |-> n(reposts)]

\* C4: for a fixed record set, cutoff, flags and keep list, and a client
\* whose calls all succeed, a pass ends with the same counters (deleted,
\* skipped-pinned, skipped-protected, skipped-repost) with dry_run set as
\* without it: the counters it reports are the ones owed to the records,
\* which do not depend on dry_run.
C4_DryRunSameCounters ==
    \A coll \in Collections :
        (Reported(coll) /\ AllCallsOk) => summary[coll][1] = Owed(coll)

\* A dry run whose calls all succeeded reported one record as deleted and
\* another as skipped.
C4_Witness ==
    /\ config.dry_run
    /\ AllCallsOk
    /\ \E coll \in Collections :
          /\ Reported(coll)
          /\ summary[coll][1].deleted = 1
          /\ summary[coll][1].skipped_pinned + summary[coll][1].skipped_kept
               + summary[coll][1].skipped_reposts = 1

\* C5: in the Mastodon statuses pass with delete_pinned unset, a status whose
\* pinned flag is set is never passed to delete_status, even when it is older
\* than the cutoff and not in the keep list; where it would have been deleted
\* it is counted as skipped-pinned instead.
C5_PinnedStatusSkipped ==
    ~config.delete_pinned =>
        /\ \A i \in DeleteCalls : calls[i].coll = Statuses => ~Deleted(i).pinned
        /\ Reported(Statuses) =>
              summary[Statuses][1].skipped_pinned =
                  Cardinality({p \in Positions(Statuses) :
                                  /\ Visited(Statuses, Rec(Statuses, p))
                                  /\ Rec(Statuses, p).pinned
                                  /\ IsOld(Statuses, Rec(Statuses, p))
                                  /\ ~SkippedAsRepost(Statuses, Rec(Statuses, p))})

\* A live statuses pass counted an old, unprotected pinned status as
\* skipped-pinned and deleted the status after it.
C5_Witness ==
    /\ ~config.delete_pinned
    /\ Len(server[Statuses]) = 2
    /\ Rec(Statuses, 1).pinned
    /\ ~Rec(Statuses, 1).reblog
    /\ IsOld(Statuses, Rec(Statuses, 1))
    /\ ~Protected(Statuses, Rec(Statuses, 1))
    /\ Reported(Statuses)
    /\ summary[Statuses][1].skipped_pinned = 1
    /\ CalledDelete(Statuses, Rec(Statuses, 2))

\* C6: in a Bluesky run with delete_pinned unset the account's pinned post is
\* never passed to delete_record, even when it is older than the cutoff and
\* not in the keep list, for every outcome of the pinned-post lookup made at
\* the start of the run.
C6_PinnedPostNeverDeleted ==
    ~config.delete_pinned =>
        \A i \in DeleteCalls :
            calls[i].coll = Post => pinned_post # Some(Deleted(i).uri)

\* C7: with delete_pinned set the pinned lookup (get_pinned_post_uri) is never
\* called during the run, and a pinned record older than the cutoff and not
\* protected is deleted like any other record: a live pass over Bluesky posts
\* or Mastodon statuses that visits it passes it to the delete call.
C7_DeletePinnedSkipsLookup ==
    config.delete_pinned =>
        /\ \A i \in DOMAIN calls : calls[i].op # "get_pinned_post_uri"
        /\ \A coll \in {Post, Statuses} : \A p \in Positions(coll) :
              ( /\ ~config.dry_run
                /\ Visited(coll, Rec(coll, p))
                /\ IsPinned(coll, Rec(coll, p))
                /\ IsOld(coll, Rec(coll, p))
                /\ ~SkippedAsRepost(coll, Rec(coll, p))
                /\ ~Protected(coll, Rec(coll, p)) )
              => CalledDelete(coll, Rec(coll, p))

\* With delete_pinned set a run ended in which the pinned record, old and
\* unprotected, was deleted from the platform.
C7_Witness ==
    /\ config.delete_pinned
    /\ pc = "exited"
    /\ \E coll \in {Post, Statuses} :
          /\ Positions(coll) # {}
          /\ IsPinned(coll, Rec(coll, 1))
          /\ IsOld(coll, Rec(coll, 1))
          /\ ~Protected(coll, Rec(coll, 1))
          /\ <<coll, RecId(coll, Rec(coll, 1))>> \in gone

\* C8: in a live pass in which every client call succeeds, every record older
\* than the cutoff that is not protected, not skipped as pinned and not
\* skipped as a repost receives a delete call wherever it is listed: the pass
\* does not stop at a record newer than the cutoff.
C8_EveryOldRecordDeleted ==
    \A coll \in Collections :
        (Reported(coll) /\ AllCallsOk /\ ~config.dry_run) =>
            \A p \in Positions(coll) :
                Eligible(coll, Rec(coll, p)) => CalledDelete(coll, Rec(coll, p))

\* A live pass deleted an old record listed after a newer one.
C8_Witness ==
    /\ AllCallsOk
    /\ \E coll \in Collections :
          /\ Len(server[coll]) = 2
          /\ NotOld(coll, Rec(coll, 1))
          /\ Eligible(coll, Rec(coll, 2))
          /\ Reported(coll)
          /\ <<coll, RecId(coll, Rec(coll, 2))>> \in gone

\* C9: within one run no record is passed to a delete call more than once (a
\* delete that failed is not tried again), and no list call of a collection
\* repeats the cursor of an earlier one.
C9_NoSecondDelete ==
    /\ \A i, j \in DeleteCalls :
          (calls[i].coll = calls[j].coll /\ calls[i].arg = calls[j].arg) => i = j
    /\ \A coll \in Collections : \A i, j \in ListCalls(coll) :
          calls[i].arg = calls[j].arg => i = j

\* A delete call failed, the walk went on to list the collection again, and
\* the pass ended with the record still on the platform.
C9_Witness ==
    \E i \in DeleteCalls :
        /\ calls[i].res = "err"
        /\ \E j \in ListCalls(calls[i].coll) : j > i
        /\ Reported(calls[i].coll)
        /\ <<calls[i].coll, calls[i].arg>> \notin gone

\* The ids a pass visited, in the order it visited them.
VisitedOf(coll) == SelectSeq(evaluated, LAMBDA e : e[1] = coll)

\* C10: for a collection of N records served in pages of any size k >= 1 by
\* a client whose cursors stay valid under deletion, a pass whose calls all
\* succeed applies the per-record policy to each of the N records exactly
\* once, and the set of records a live pass deletes is the set of eligible
\* records, whatever the page sizes were.
C10_EachRecordOnce ==
    \A coll \in Collections :
        (Reported(coll) /\ AllCallsOk) =>
            /\ VisitedOf(coll) =
                  [p \in Positions(coll) |-> <<coll, RecId(coll, Rec(coll, p))>>]
            /\ ~config.dry_run =>
                  {e \in gone : e[1] = coll} =
                     {<<coll, RecId(coll, Rec(coll, p))>> :
                        p \in {q \in Positions(coll) : Eligible(coll, Rec(coll, q))}}

\* A pass ended after it walked two records served one to a page.
C10_Witness ==
    /\ AllCallsOk
    /\ \E coll \in Collections :
          /\ Len(server[coll]) = 2
          /\ Reported(coll)
          /\ Len(VisitedOf(coll)) = 2
          /\ \E i \in ListCalls(coll) :
                calls[i].arg = Some(RecId(coll, Rec(coll, 1)))

\* The page fetches of a collection, in the order they were made.
Fetches(coll) == SelectSeq(calls, LAMBDA c : c.op \in ListOps /\ c.coll = coll)
IdAt(coll, p) == RecId(coll, Rec(coll, p))
IsGone(coll, p) == <<coll, IdAt(coll, p)>> \in gone
\* A live pass over exactly two old deletable records has reported, every
\* call having succeeded.
TwoOldRecordsDone(coll) ==
    /\ Reported(coll)
    /\ AllCallsOk
    /\ ~config.dry_run
    /\ Len(server[coll]) = 2
    /\ \A p \in Positions(coll) : Eligible(coll, Rec(coll, p))
\* The first page held one record: the second fetch continues after it.
PagedByOne(coll) ==
    Len(Fetches(coll)) >= 2 /\ Fetches(coll)[2].arg = Some(IdAt(coll, 1))

\* C11 as stated: in every pass, two old deletable records served one to a
\* page take exactly two page fetches, the first with no cursor and the
\* second with the continuation cursor of the first page, and both records
\* are deleted.
C11_ExactlyTwoFetches ==
    \A coll \in Collections :
        (TwoOldRecordsDone(coll) /\ PagedByOne(coll)) =>
            /\ Len(Fetches(coll)) = 2
            /\ Fetches(coll)[1].arg = None
            /\ IsGone(coll, 1) /\ IsGone(coll, 2)

\* C11 amended: in every pass over two old deletable records both are
\* deleted, the first fetch carries no cursor and the second continues after
\* the last record of the first page; when the records come one to a page
\* the pass makes two fetches or three, the third continuing after the
\* second record and finding the end of the collection, and the Mastodon
\* statuses pass, which ends only on an empty page, always makes the third.
C11_TwoOrThreeFetches ==
    \A coll \in Collections :
        TwoOldRecordsDone(coll) =>
            /\ IsGone(coll, 1) /\ IsGone(coll, 2)
            /\ Fetches(coll)[1].arg = None
            /\ Len(Fetches(coll)) >= 2 =>
                  Fetches(coll)[2].arg \in {Some(IdAt(coll, 1)), Some(IdAt(coll, 2))}
            /\ PagedByOne(coll) =>
                  /\ Len(Fetches(coll)) \in {2, 3}
                  /\ Len(Fetches(coll)) = 3 => Fetches(coll)[3].arg = Some(IdAt(coll, 2))
                  /\ coll = Statuses => Len(Fetches(coll)) = 3

\* Two old records came one to a page and the pass deleted both with two
\* fetches.
C11_Witness ==
    \E coll \in Collections :
        /\ TwoOldRecordsDone(coll)
        /\ PagedByOne(coll)
        /\ Len(Fetches(coll)) = 2
        /\ IsGone(coll, 1) /\ IsGone(coll, 2)

\* Client calls made after the i-th call.
Later(i) == {j \in DOMAIN calls : j > i}
RateLimited(op) == {i \in DOMAIN calls : calls[i].op = op /\ calls[i].res = "429"}
\* Calls of op on the collection that returned success.
Succeeded(op) == {i \in DOMAIN calls : calls[i].op = op /\ calls[i].res = "ok"}

\* C12: in the Mastodon statuses pass, once a delete_status call has failed
\* with a rate-limit error (429) no further delete_status and no further
\* list_statuses call is made in that pass.
C12_StatusesStopOnRateLimit ==
    \A i \in RateLimited("delete_status") : \A j \in Later(i) :
        calls[j].op \notin {"delete_status", "list_statuses"}

\* C13: in the Mastodon favourites pass, once an unfavourite call has failed
\* with a rate-limit error (429) no further unfavourite and no further
\* list_favourites call is made, the favourites summary reports as deleted
\* the successful unfavourites made before it, and delete_old_posts returns
\* Ok.
C13_FavouritesStopOnRateLimit ==
    \A i \in RateLimited("unfavourite") :
        /\ \A j \in Later(i) : calls[j].op \notin {"unfavourite", "list_favourites"}
        /\ Reported(Favourites)
        /\ summary[Favourites][1].deleted =
              Cardinality({j \in Succeeded("unfavourite") : j < i})
        /\ result.mastodon = "Ok"

\* The first unfavourite was rate limited and the run ended with the old
\* favourite after it never visited.
C13_Witness ==
    /\ pc = "exited"
    /\ Len(server[Favourites]) = 2
    /\ Eligible(Favourites, Rec(Favourites, 2))
    /\ ~Visited(Favourites, Rec(Favourites, 2))
    /\ \E i \in RateLimited("unfavourite") : calls[i].arg = IdAt(Favourites, 1)

\* C14: in a Bluesky pass, once a delete_record call has failed with a
\* rate-limit error no further delete_record and no further list_records
\* call is made in that pass.
C14_BlueskyStopsOnRateLimit ==
    \A i \in RateLimited("delete_record") : \A j \in Later(i) :
        calls[j].coll # calls[i].coll

\* The records of the collection in listing order, as a pass visits them.
AllOf(coll) == [p \in Positions(coll) |-> <<coll, IdAt(coll, p)>>]
\* No call has failed but delete calls, and those not with a rate limit.
OnlyDeletesFailed ==
    \A i \in DOMAIN calls :
        calls[i].res # "ok" => (calls[i].op \in DeleteOps /\ calls[i].res = "err")

\* C15: when a delete call fails with an error that is not a rate limit the
\* deleted counter is not incremented, the pass goes on with the next record
\* and the later pages, and it does not return an error; in live mode the
\* deleted counter a pass reports equals the number of its delete calls that
\* returned success.
C15_FailedDeleteIsSkipped ==
    /\ \A coll \in Collections :
          /\ (Reported(coll) /\ ~config.dry_run) =>
                summary[coll][1].deleted =
                   Cardinality({i \in DeleteCalls :
                                   calls[i].coll = coll /\ calls[i].res = "ok"})
          /\ (Reported(coll) /\ OnlyDeletesFailed) => VisitedOf(coll) = AllOf(coll)
    /\ OnlyDeletesFailed => (result.bluesky # "Err" /\ result.mastodon # "Err")

\* The delete of the first of two old records failed, the pass went on to
\* delete the second and reported one record deleted.
C15_Witness ==
    \E i \in DeleteCalls :
        /\ calls[i].res = "err"
        /\ calls[i].arg = IdAt(calls[i].coll, 1)
        /\ Len(server[calls[i].coll]) = 2
        /\ IsGone(calls[i].coll, 2)
        /\ Reported(calls[i].coll)
        /\ summary[calls[i].coll][1].deleted = 1

\* The platform an operation of the clients belongs to.
PlatformOfOp(op) ==
    IF op \in {"create_session", "get_pinned_post_uri", "list_records", "delete_record"}
    THEN "bluesky" ELSE "mastodon"
\* Calls made on the same platform after the i-th call.
LaterOnPlatform(i) ==
    {j \in Later(i) : PlatformOfOp(calls[j].op) = PlatformOfOp(calls[i].op)}
Failed(ops) == {i \in DOMAIN calls : calls[i].op \in ops /\ calls[i].res # "ok"}

\* C16: if a page fetch fails (list_records in any Bluesky pass,
\* list_statuses) the pass stops at once with a propagated error: no further
\* call is made on the platform, no summary is reported for the pass, and
\* the platform's delete_old_posts returns Err.
C16_FetchFailureEndsRun ==
    \A i \in Failed({"list_records", "list_statuses"}) :
        /\ LaterOnPlatform(i) = {}
        /\ ~Reported(calls[i].coll)
        /\ result[PlatformOfOp(calls[i].op)] = "Err"

\* The fetch of a second page failed after the pass had deleted the record
\* of the first one.
C16_Witness ==
    \E i \in Failed({"list_records", "list_statuses"}) :
        /\ calls[i].arg # None
        /\ IsGone(calls[i].coll, 1)
        /\ ~Reported(calls[i].coll)
        /\ pc = "exited"

AuthOps == {"create_session", "verify_credentials"}
CallsOn(plat) == {i \in DOMAIN calls : PlatformOfOp(calls[i].op) = plat}

\* C18: if authentication fails (create_session or verify_credentials
\* returns an error) the platform's run returns Err without any
\* pinned-lookup, list or delete call: the failed call is the only call made
\* on the platform.
C18_AuthFailureAbortsPlatform ==
    \A i \in Failed(AuthOps) :
        /\ CallsOn(PlatformOfOp(calls[i].op)) = {i}
        /\ result[PlatformOfOp(calls[i].op)] = "Err"
        /\ \A coll \in Collections :
              PlatformOf(coll) = PlatformOfOp(calls[i].op) =>
                 (~Reported(coll) /\ VisitedOf(coll) = <<>>)

\* Authentication failed on an account that held an old deletable record,
\* and the process ended.
C18_Witness ==
    /\ pc = "exited"
    /\ \E i \in Failed(AuthOps) : \E coll \in {Post, Statuses} :
          /\ PlatformOf(coll) = PlatformOfOp(calls[i].op)
          /\ Positions(coll) # {}
          /\ Eligible(coll, Rec(coll, 1))
          /\ ~IsGone(coll, 1)

\* The place of a collection among the passes of its platform.
PassOrder(coll) ==
    CASE coll \in {Post, Statuses} -> 1
      [] coll \in {Repost, Favourites} -> 2
      [] coll = Like -> 3
PassCalls == {i \in DOMAIN calls : calls[i].op \in ListOps \cup DeleteOps}

\* C19: in each platform run authentication is performed exactly once and
\* before every pinned-lookup, list and delete call of the run, and the
\* passes follow one another (posts, then reposts, then likes; statuses,
\* then favourites) on that one session with no second authentication.
C19_AuthenticatesOnce ==
    /\ \A plat \in {"bluesky", "mastodon"} :
          LET auth == {i \in CallsOn(plat) : calls[i].op \in AuthOps}
          IN /\ Cardinality(auth) <= 1
             /\ \A j \in CallsOn(plat) \ auth :
                   \E i \in auth : i < j /\ calls[i].res = "ok"
             /\ (pc = "exited" /\ creds[plat]) => Cardinality(auth) = 1
    /\ \A i, j \in PassCalls :
          (i < j /\ PlatformOf(calls[i].coll) = PlatformOf(calls[j].coll)) =>
              PassOrder(calls[i].coll) <= PassOrder(calls[j].coll)
    /\ (\E i \in CallsOn("bluesky") : calls[i].op # "create_session") =>
          session = Some(Did)

\* A Bluesky run authenticated once and deleted a post, a repost and a like.
C19_Witness ==
    /\ pc = "exited"
    /\ Cardinality({i \in DOMAIN calls : calls[i].op = "create_session"}) = 1
    /\ \A coll \in {Post, Like} : \E i \in Succeeded("delete_record") : calls[i].coll = coll
    /\ \E i \in PassCalls : calls[i].coll = Repost

\* C20: the process ends with a failure result if and only if the run of a
\* configured platform returned an error, and a platform's run returns an
\* error only when its authentication or a page fetch of its records or
\* statuses failed: failed deletions and skipped records alone never make
\* the process fail.
C20_ProcessFailsIffPlatformFailed ==
    /\ pc = "exited" =>
          /\ result.process \in {"Ok", "Err"}
          /\ result.process = "Err" <=>
                (result.bluesky = "Err" \/ result.mastodon = "Err")
          /\ had_errors <=> result.process = "Err"
          /\ \A plat \in {"bluesky", "mastodon"} :
                creds[plat] <=> result[plat] \in {"Ok", "Err"}
    /\ \A plat \in {"bluesky", "mastodon"} :
          result[plat] = "Err" <=>
             \E i \in Failed(AuthOps \cup {"list_records", "list_statuses"}) :
                 PlatformOfOp(calls[i].op) = plat

\* With both platforms configured a process ended without a failure after a
\* delete call had failed.
C20_Witness ==
    /\ pc = "exited"
    /\ creds.bluesky /\ creds.mastodon
    /\ result.process = "Ok"
    /\ Failed(DeleteOps) # {}

\* The Bluesky section of main is behind: its run returned or was skipped.
BlueskyDone == result.bluesky \in {"Ok", "Err", "skipped"}
VerifyCalls == {i \in DOMAIN calls : calls[i].op = "verify_credentials"}

\* C21: a failure of the Bluesky run does not prevent the Mastodon run: with
\* Mastodon credentials present, once the Bluesky section is behind (Ok, Err
\* or skipped) main stands at the Mastodon authentication or has made it, no
\* Mastodon call comes before the Bluesky run has finished, and the process
\* never ends without the Mastodon run having authenticated, listed its
\* statuses if that succeeded, and returned.
C21_MastodonRunsAfterBluesky ==
    /\ (creds.mastodon /\ BlueskyDone) =>
          \/ pc = "masto_verify_credentials" /\ CallsOn("mastodon") = {}
          \/ VerifyCalls # {}
    /\ ~BlueskyDone => CallsOn("mastodon") = {}
    /\ \A i \in CallsOn("bluesky"), j \in CallsOn("mastodon") : i < j
    /\ (creds.mastodon /\ pc = "exited") =>
          /\ VerifyCalls # {}
          /\ Succeeded("verify_credentials") # {} => ListCalls(Statuses) # {}
          /\ result.mastodon \in {"Ok", "Err"}

\* The Bluesky run failed and the Mastodon run after it deleted a status.
C21_Witness ==
    /\ pc = "exited"
    /\ creds.bluesky /\ creds.mastodon
    /\ result.bluesky = "Err"
    /\ result.mastodon = "Ok"
    /\ Succeeded("delete_status") # {}

\* C22: a platform whose credentials are missing is skipped: no client call
\* is ever made on it, its result is "skipped" and never an error, the error
\* flag is only ever set by a configured platform whose run returned Err, and
\* a process with no platform configured ends Ok without a single call.
C22_MissingCredentialsSkip ==
    /\ \A plat \in {"bluesky", "mastodon"} :
          ~creds[plat] =>
             /\ CallsOn(plat) = {}
             /\ result[plat] \in {"none", "skipped"}
             /\ pc = "exited" => result[plat] = "skipped"
    /\ had_errors =>
          \E plat \in {"bluesky", "mastodon"} : creds[plat] /\ result[plat] = "Err"
    /\ (pc = "exited" /\ ~creds.bluesky /\ ~creds.mastodon) =>
          /\ result.process = "Ok"
          /\ ~had_errors
          /\ calls = <<>>

\* A process with no platform configured has ended Ok.
C22_Witness ==
    /\ pc = "exited"
    /\ ~creds.bluesky /\ ~creds.mastodon
    /\ result = [bluesky |-> "skipped", mastodon |-> "skipped", process |-> "Ok"]

\* Nothing has touched the collection: no call names it, no record of it
\* was visited or is gone, no summary was reported for it.
Untouched(coll) ==
    /\ \A i \in DOMAIN calls : calls[i].coll # coll
    /\ \A j \in DOMAIN evaluated : evaluated[j][1] # coll
    /\ \A p \in Positions(coll) : ~IsGone(coll, p)
    /\ ~Reported(coll)

\* C23: the passes are gated by the flags: with delete_reposts false the
\* Bluesky repost collection is never touched, with delete_likes false
\* neither the Bluesky likes nor the Mastodon favourites are; the posts pass
\* and the statuses pass run whenever authentication succeeded, and a pass
\* whose flag is set runs once the passes before it have reported.
C23_PassesGatedByFlags ==
    /\ ~config.delete_reposts => Untouched(Repost)
    /\ ~config.delete_likes => Untouched(Like) /\ Untouched(Favourites)
    /\ pc = "exited" =>
          /\ Succeeded("create_session") # {} => ListCalls(Post) # {}
          /\ Succeeded("verify_credentials") # {} => ListCalls(Statuses) # {}
          /\ (Reported(Post) /\ config.delete_reposts) => ListCalls(Repost) # {}
          /\ (config.delete_likes /\ Reported(Post)
                /\ (config.delete_reposts => Reported(Repost)))
                => ListCalls(Like) # {}
          /\ (Reported(Statuses) /\ config.delete_likes)
                => ListCalls(Favourites) # {}

\* With delete_reposts false and delete_likes true a run left an old repost
\* alone and deleted a like.
C23_Witness ==
    /\ pc = "exited"
    /\ ~config.delete_reposts /\ config.delete_likes
    /\ \E p \in Positions(Repost) : Eligible(Repost, Rec(Repost, p))
    /\ \E p \in Positions(Like) : IsGone(Like, p)

Reblogs == {p \in Positions(Statuses) : Rec(Statuses, p).reblog}

\* C24: in the statuses pass, with delete_reposts false no reblog is ever
\* deleted and the pass counts every old reblog it visited as skipped-repost;
\* with delete_reposts true no status is counted skipped-repost and a live
\* pass whose calls all succeeded has deleted every old reblog that is
\* neither skipped as pinned nor protected.
C24_ReblogsFollowTheFlag ==
    /\ ~config.delete_reposts =>
          /\ \A i \in DeleteCalls :
                calls[i].op = "delete_status" => ~Deleted(i).reblog
          /\ \A p \in Reblogs : ~IsGone(Statuses, p)
          /\ Reported(Statuses) =>
                summary[Statuses][1].skipped_reposts =
                   Cardinality({p \in Reblogs :
                                  /\ Visited(Statuses, Rec(Statuses, p))
                                  /\ IsOld(Statuses, Rec(Statuses, p))})
    /\ config.delete_reposts =>
          /\ Reported(Statuses) => summary[Statuses][1].skipped_reposts = 0
          /\ (Reported(Statuses) /\ AllCallsOk /\ ~config.dry_run) =>
                \A p \in Reblogs :
                   LET s == Rec(Statuses, p)
                   IN (IsOld(Statuses, s) /\ ~SkippedAsPinned(Statuses, s)
                         /\ ~Protected(Statuses, s)) <=> IsGone(Statuses, p)

\* With delete_reposts false a live pass counted an old reblog, neither
\* pinned nor protected, as skipped-repost and deleted the status after it.
C24_Witness ==
    /\ ~config.delete_reposts /\ ~config.dry_run
    /\ Reported(Statuses)
    /\ summary[Statuses][1].skipped_reposts = 1
    /\ summary[Statuses][1].deleted = 1
    /\ \E p \in Reblogs :
          LET s == Rec(Statuses, p)
          IN IsOld(Statuses, s) /\ ~s.pinned /\ ~Protected(Statuses, s)

Platforms == {"bluesky", "mastodon"}
\* The ids is_protected is asked about: record ids and a record URI.
AskedIds == {IdOf(1), IdOf(2), AtUri(Post, IdOf(1))}

\* C25: is_protected(keep_list, platform, id) is true if and only if the
\* keep list holds "<platform>:<id>" or the bare id: an entry with the prefix
\* of another platform does not protect, and a bare id protects that id on
\* every platform.
C25_IsProtectedIffListed ==
    /\ \A plat \in Platforms, id \in AskedIds :
          is_protected(keep_list, plat, id) <=>
             \E e \in keep_list : e = id \/ e = <<plat>> \o <<":">> \o id
    /\ \A plat \in Platforms, other \in Platforms, id \in AskedIds :
          (other # plat /\ keep_list = {<<other>> \o <<":">> \o id}) =>
             ~is_protected(keep_list, plat, id)
    /\ \A id \in AskedIds :
          id \in keep_list => \A plat \in Platforms : is_protected(keep_list, plat, id)

\* The keep list names post 1 with the Mastodon prefix, and the Bluesky run
\* deleted post 1.
C25_Witness ==
    /\ keep_list = {PlatformId("mastodon", IdOf(1))}
    /\ creds.bluesky
    /\ Positions(Post) # {}
    /\ IsGone(Post, 1)
    /\ ~is_protected(keep_list, "bluesky", IdOf(1))

\* The last '/'-separated segment of a record URI, read off its tokens.
LastSegment(uri) == <<uri[Len(uri)]>>
\* The keep list holds the rkey or the URI of the record, bare or with the
\* "bluesky:" prefix.
NamedInKeepList(r) ==
    keep_list \cap {LastSegment(r.uri), <<"bluesky", ":">> \o LastSegment(r.uri),
                    r.uri, <<"bluesky", ":">> \o r.uri} # {}
\* The pass found the record to be the pinned one and pinned records are kept.
EffectivePinned(coll, r) ==
    /\ ~config.delete_pinned
    /\ \/ coll = Post /\ Succeeded("get_pinned_post_uri") # {} /\ pinned_post = Some(r.uri)
       \/ coll = Statuses /\ r.pinned
SegVisited(coll, r) ==
    \E j \in DOMAIN evaluated : evaluated[j] = <<coll, LastSegment(r.uri)>>

\* C26: every delete_record call names the last '/'-separated segment of the
\* URI of a record of its collection, and never a record the keep list names
\* by rkey or by full URI, bare or prefixed with "bluesky:"; a Bluesky pass
\* counts as skipped-protected exactly the old records it visited that the
\* keep list names so (the pinned post, skipped before, aside), and a live
\* pass whose calls all succeeded has deleted every old record not named so
\* and not pinned.
C26_BlueskyProtectedByRkeyOrUri ==
    /\ \A i \in DeleteCalls :
          calls[i].op = "delete_record" =>
             \E p \in Positions(calls[i].coll) :
                 /\ calls[i].arg = LastSegment(Rec(calls[i].coll, p).uri)
                 /\ ~NamedInKeepList(Rec(calls[i].coll, p))
    /\ \A coll \in BskyCollections :
          Reported(coll) =>
             /\ summary[coll][1].skipped_kept =
                   Cardinality({p \in Positions(coll) :
                                  LET r == Rec(coll, p)
                                  IN /\ SegVisited(coll, r)
                                     /\ IsOld(coll, r)
                                     /\ ~EffectivePinned(coll, r)
                                     /\ NamedInKeepList(r)})
             /\ (AllCallsOk /\ ~config.dry_run) =>
                   \A p \in Positions(coll) :
                      LET r == Rec(coll, p)
                      IN (IsOld(coll, r) /\ ~EffectivePinned(coll, r)
                            /\ ~NamedInKeepList(r))
                         <=> <<coll, LastSegment(r.uri)>> \in gone

\* The keep list names post 1 by its full URI with the "bluesky:" prefix; the
\* posts pass counted it skipped-protected and deleted post 2 by its rkey.
C26_Witness ==
    /\ keep_list = {PlatformId("bluesky", AtUri(Post, IdOf(1)))}
    /\ Reported(Post)
    /\ summary[Post][1].skipped_kept = 1
    /\ \E i \in Succeeded("delete_record") : calls[i].arg = IdOf(2)
    /\ <<Post, IdOf(1)>> \notin gone

\* load_keep_list has returned.
Loaded == pc # "load_keep_list"
Blank(c, a, b) == \A k \in a..b : c[k] \in Whitespace
\* The characters i..j of the file are a line without the blanks around it,
\* not empty and not starting with '#'.
IsEntryAt(c, i, j) ==
    /\ i <= j
    /\ \A k \in i..j : c[k] # "\n"
    /\ c[i] \notin Whitespace /\ c[j] \notin Whitespace
    /\ c[i] # "#"
    /\ \E a \in 1..i : (a = 1 \/ c[a - 1] = "\n") /\ Blank(c, a, i - 1)
    /\ \E b \in j..Len(c) : (b = Len(c) \/ c[b + 1] = "\n") /\ Blank(c, j + 1, b)
ExpectedKeepList(file) ==
    IF file.exists /\ file.readable
    THEN {SubSeq(file.contents, i, j) :
            <<i, j>> \in {ij \in (1..Len(file.contents)) \X (1..Len(file.contents)) :
                            IsEntryAt(file.contents, ij[1], ij[2])}}
    ELSE {}

\* C27: load_keep_list returns exactly the lines of the file, trimmed, that
\* are not empty and do not begin with '#' after trimming; a missing, an
\* unreadable and an empty file each give the empty set, and main goes on
\* without an error.
C27_KeepListIsTheTrimmedLines ==
    Loaded =>
       /\ keep_list = ExpectedKeepList(keep_file)
       /\ (~keep_file.exists \/ ~keep_file.readable \/ keep_file.contents = <<>>)
             => keep_list = {}
       /\ \A e \in keep_list :
             e # <<>> /\ e[1] \notin Whitespace \cup {"#"} /\ e[Len(e)] \notin Whitespace
       /\ pc = "main" => ~had_errors

\* A file of an indented comment line and an entry gave the entry alone.
C27_Witness ==
    /\ Loaded
    /\ keep_file = FileOf(<<" ", "#", "\n", "a">>)
    /\ keep_list = {<<"a">>}

CounterSum(c) == c.deleted + c.skipped_pinned + c.skipped_kept + c.skipped_reposts

\* C28: a record whose timestamp is missing or does not parse is never named
\* by a delete call and never gone, counts in no counter (the counters of a
\* pass add up to no more than the old records it visited), and does not
\* stop or fail the pass: once the pass has reported without a failed call
\* every record after it was visited, and a run without a failed call ends
\* Ok.
C28_TimelessRecordsArePassedOver ==
    /\ \A i \in DeleteCalls : HasTime(calls[i].coll, Deleted(i))
    /\ \A coll \in Collections : \A p \in Positions(coll) :
          ~HasTime(coll, Rec(coll, p)) => ~IsGone(coll, p)
    /\ \A coll \in Collections :
          Reported(coll) =>
             /\ CounterSum(summary[coll][1]) <=
                   Cardinality({p \in Positions(coll) :
                                  /\ Visited(coll, Rec(coll, p))
                                  /\ IsOld(coll, Rec(coll, p))})
             /\ AllCallsOk =>
                   \A p \in Positions(coll), q \in Positions(coll) :
                      (p < q /\ ~HasTime(coll, Rec(coll, p)))
                         => (Visited(coll, Rec(coll, p)) /\ Visited(coll, Rec(coll, q)))
    /\ (pc = "exited" /\ AllCallsOk) => result.process = "Ok"

\* A pass visited a record without a usable timestamp, deleted the record
\* after it and reported one deletion and nothing else.
C28_Witness ==
    \E coll \in Collections :
       /\ Reported(coll)
       /\ summary[coll][1] = [Zero EXCEPT !.deleted = 1]
       /\ \E p \in Positions(coll), q \in Positions(coll) :
             /\ p < q
             /\ ~HasTime(coll, Rec(coll, p))
             /\ Visited(coll, Rec(coll, p))
             /\ IsGone(coll, q)

\* C29: re-running is safe: a run started after a live run whose calls all
\* succeeded, on the same cutoff, flags and keep file, makes no delete call,
\* leaves every record at or after the cutoff, every record the keep list
\* names and every pinned record (delete_pinned false) on the platform, and
\* ends Ok unless its authentication or a page fetch failed.
C29_SecondRunDeletesNothing ==
    run > 1 =>
       /\ DeleteCalls = {}
       /\ Loaded =>
             \A coll \in Collections : \A p \in Positions(coll) :
                LET r == Rec(coll, p)
                IN (NotOld(coll, r) \/ Protected(coll, r) \/ SkippedAsPinned(coll, r))
                      => ~IsGone(coll, p)
       /\ (pc = "exited" /\ Failed(AuthOps \cup ListOps) = {}) => result.process = "Ok"

\* C29, as far as it holds: the second run makes no delete call and reports no
\* deletion as long as its own calls succeed, and then ends Ok; in both runs
\* no record at or after the cutoff, none the keep list names and, the pinned
\* lookup not having failed, no pinned one is gone.
C29_SecondRunDeletesNothingIfItsCallsSucceed ==
    /\ (run > 1 /\ AllCallsOk) =>
          /\ DeleteCalls = {}
          /\ \A coll \in Collections :
                Reported(coll) => summary[coll][1].deleted = 0
          /\ pc = "exited" => result.process = "Ok"
    /\ Loaded =>
          \A coll \in Collections : \A p \in Positions(coll) :
             LET r == Rec(coll, p)
             IN (\/ NotOld(coll, r)
                 \/ Protected(coll, r)
                 \/ SkippedAsPinned(coll, r) /\ Failed({"get_pinned_post_uri"}) = {})
                => ~IsGone(coll, p)

\* A second run ended Ok on an account the first run had deleted from, after
\* visiting a record the first run had left.
C29_Witness ==
    /\ run = 2
    /\ pc = "exited"
    /\ result.process = "Ok"
    /\ gone # {}
    /\ evaluated # <<>>
    /\ DeleteCalls = {}

\* C30: each record a pass visits counts in at most one counter, by the first
\* rule that matches in the order skipped-repost, skipped-pinned,
\* skipped-protected, deleted: the reported counters are the numbers of old
\* visited records falling under each rule in that order, so a record both
\* pinned (delete_pinned false) and in the keep list counts as skipped-pinned
\* only, and when every call succeeded the counters add up to the number of
\* records of the collection with a parsable timestamp before the cutoff.
C30_OneCounterPerRecord ==
    \A coll \in Collections :
       Reported(coll) =>
          LET n(S) == Cardinality(S)
              old == {p \in Positions(coll) :
                        Visited(coll, Rec(coll, p)) /\ IsOld(coll, Rec(coll, p))}
              reposts == {p \in old : SkippedAsRepost(coll, Rec(coll, p))}
              pins == {p \in old \ reposts : EffectivePinned(coll, Rec(coll, p))}
              kept == {p \in old \ (reposts \cup pins) : Protected(coll, Rec(coll, p))}
              rest == old \ (reposts \cup pins \cup kept)
              c == summary[coll][1]
          IN /\ c.skipped_reposts = n(reposts)
             /\ c.skipped_pinned = n(pins)
             /\ c.skipped_kept = n(kept)
             /\ c.deleted <= n(rest)
             /\ AllCallsOk =>
                   /\ c.deleted = n(rest)
                   /\ CounterSum(c) =
                         n({p \in Positions(coll) : IsOld(coll, Rec(coll, p))})

\* A pass counted a record that is pinned and in the keep list as
\* skipped-pinned and not as skipped-protected.
C30_Witness ==
    \E coll \in Collections :
       /\ Reported(coll)
       /\ summary[coll][1].skipped_pinned = 1
       /\ summary[coll][1].skipped_kept = 0
       /\ \E p \in Positions(coll) :
             LET r == Rec(coll, p)
             IN /\ IsOld(coll, r)
                /\ ~SkippedAsRepost(coll, r)
                /\ EffectivePinned(coll, r)
                /\ Protected(coll, r)

DeleteCallsIn(coll) == {i \in DeleteCalls : calls[i].coll = coll}
\* The step makes a list call that succeeds and finds no record after its cursor.
FetchesEmptyPage(coll) ==
    /\ Len(calls') = Len(calls) + 1
    /\ calls'[Len(calls')].op \in ListOps
    /\ calls'[Len(calls')].coll = coll
    /\ calls'[Len(calls')].res = "ok"
    /\ Remaining(coll, calls'[Len(calls')].arg) = <<>>
\* The step walks the last record of a page that came without a cursor, in a
\* pass that follows the cursors of its pages.
WalksLastOfLastPage ==
    /\ pc \in {"bsky_for", "masto_fav_for"}
    /\ Len(page) = 1
    /\ resp_cursor = None
CallsAreBounded ==
    \A coll \in Collections :
       /\ Cardinality(ListCalls(coll)) <= Len(server[coll]) + 1
       /\ Cardinality(DeleteCallsIn(coll)) <= Len(server[coll])

\* How far main has come.
Stage ==
    CASE pc = "load_keep_list" -> 0
      [] pc = "main" -> 1
      [] pc = "bsky_create_session" -> 2
      [] pc = "bsky_get_pinned" -> 3
      [] pc \in {"bsky_list_records", "bsky_for"} -> 4
      [] pc = "masto_verify_credentials" -> 5
      [] pc = "exited" -> 7
      [] OTHER -> 6
\* What the run has done so far: every step makes a call, visits a record
\* or takes main further.
Progress == Len(calls) + Len(evaluated) + Stage
\* The most a run can do on the records the platforms hold: two
\* authentications, the pinned lookup, and for a collection of N records
\* N + 1 list calls, N visits and N delete calls.
ProgressLimit ==
    LET sz == [coll \in Collections |-> Len(server[coll])]
    IN 7 + 3 + 3 * (sz[Post] + sz[Repost] + sz[Like] + sz[Statuses] + sz[Favourites])
         + Cardinality(Collections)

\* The positions of the process; at each but the last the next step of the
\* code can be taken whatever the state is.
Positions31 ==
    {"load_keep_list", "main", "bsky_create_session", "bsky_get_pinned",
     "bsky_list_records", "bsky_for", "masto_verify_credentials",
     "masto_list_statuses", "masto_for", "masto_list_favourites",
     "masto_fav_for", "exited"}

\* C31: every pass terminates: the process is always at one of its
\* positions, every step adds to what the run has done (a call, a visited
\* record, a further stage of main) and that never exceeds a limit fixed by
\* the sizes of the collections, with at most N + 1 list calls and N delete
\* calls on a collection of N records, failed deletes and rate-limit errors
\* included; a list call that finds no record ends the pass, as does the last
\* record of a page that came without a cursor in the passes that follow
\* cursors (Bluesky, Mastodon favourites), and no list call is made on a
\* collection once its pass has ended.
C31_EveryPassTerminates ==
    /\ [](pc \in Positions31)
    /\ [](Progress <= ProgressLimit /\ CallsAreBounded)
    /\ [][Progress' > Progress]_vars
    /\ [][\A coll \in Collections :
            /\ FetchesEmptyPage(coll) => Reported(coll)'
            /\ Reported(coll) => ListCalls(coll)' = ListCalls(coll)]_vars
    /\ [][\A coll \in Collections :
            (WalksLastOfLastPage /\ collection = coll) => Reported(coll)']_vars

\* A run has ended after a failed delete call and a pass that took three
\* list calls to walk its two records.
C31_Witness ==
    /\ pc = "exited"
    /\ Failed(DeleteOps) # {}
    /\ \E coll \in Collections :
          /\ Reported(coll)
          /\ Len(server[coll]) = 2
          /\ Cardinality(ListCalls(coll)) = 3

C33_FetchFailureStopsLaterPasses ==
    /\ \A i \in Failed({"list_records"}) : \A coll \in BskyCollections :
          PassOrder(coll) > PassOrder(calls[i].coll) => Untouched(coll)
    /\ Failed({"list_statuses"}) # {} => Untouched(Favourites)
    /\ \A i \in DeleteCalls :
          calls[i].res = "ok" => <<calls[i].coll, calls[i].arg>> \in gone

\* The posts pass deleted a post, then its list_records failed; the run ended
\* with an old repost left, reposts being asked for.
C33_Witness ==
    /\ pc = "exited"
    /\ \E i \in Failed({"list_records"}) : calls[i].coll = Post
    /\ \E p \in Positions(Post) : IsGone(Post, p)
    /\ config.delete_reposts
    /\ \E p \in Positions(Repost) : Eligible(Repost, Rec(Repost, p))

\* The calls that read the stored session through session().
SessionOps == {"get_pinned_post_uri", "list_records", "delete_record"}

\* C36: the 'Session not initialized' panic cannot happen in a Bluesky run:
\* every get_pinned_post_uri, list_records and delete_record call comes after
\* a create_session call that succeeded, the session is stored whenever main
\* stands before such a call, it is stored exactly when create_session has
\* succeeded, and create_session is called at most once on the client, so
\* the session is set at most once.
C36_SessionIsSetBeforeUse ==
    /\ \A i \in DOMAIN calls :
          calls[i].op \in SessionOps =>
             \E j \in Succeeded("create_session") : j < i
    /\ pc \in {"bsky_get_pinned", "bsky_list_records", "bsky_for"} => session # None
    /\ session # None <=> Succeeded("create_session") # {}
    /\ session \in {None, Some(Did)}
    /\ Cardinality({i \in DOMAIN calls : calls[i].op = "create_session"}) <= 1

\* A record was deleted on the stored session.
C36_Witness ==
    /\ session = Some(Did)
    /\ Succeeded("delete_record") # {}
    /\ Succeeded("get_pinned_post_uri") # {}

\* The parts of a header marked rel="next", the max_id parameters of a part.
NextParts(d) == {i \in DOMAIN d : d[i].rel = RelNext}
MaxIds(part) == {k \in DOMAIN part.params : part.params[k][1] = "max_id="}
\* What the claim says the header written from d gives: the value of the
\* max_id parameter of its one rel="next" part, None when it has no such
\* part.
SaysMaxId(d, v) ==
    /\ NextParts(d) = {} => v = None
    /\ \A i \in NextParts(d) :
          (NextParts(d) = {i} /\ Cardinality(MaxIds(d[i])) = 1) =>
             \A k \in MaxIds(d[i]) : v = Some(<<d[i].params[k][2]>>)

\* C34: parse_max_id_from_link returns the value of the max_id parameter of
\* the URL of the Link part marked rel="next", whatever parameters come
\* before or after it and whether a rel="prev" part comes before or after,
\* and None when the header is empty, absent or has no rel="next" part; in
\* the favourites pass the cursor that came with a page is what the header
\* gives, the next list_favourites call carries it as max_id, and the pass
\* ends after the page when it is None.
C34_NextPageFromLinkHeader ==
    /\ [](pc = "masto_link_parsed" =>
            /\ link_header \in {None, Some(<<>>)} => resp_cursor = None
            /\ \A d \in LinkDescs :
                  link_header = Some(Link(d)) => SaysMaxId(d, resp_cursor))
    /\ [](pc = "masto_fav_for" => resp_cursor = NextMaxId(link_header))
    /\ [][(pc = "masto_fav_for" /\ pc' = "masto_list_favourites") =>
            /\ NextMaxId(link_header) # None
            /\ cursor' = NextMaxId(link_header)]_vars
    /\ [][(pc = "masto_list_favourites" /\ Len(calls') > Len(calls)) =>
            /\ calls'[Len(calls')].op = "list_favourites"
            /\ calls'[Len(calls')].arg = cursor]_vars
    /\ [][(pc = "masto_fav_for" /\ Len(page) = 1 /\ NextMaxId(link_header) = None)
            => Reported(Favourites)']_vars

\* A header with the prev part first and limit before max_id gave the max_id
\* of the next part.
C34_Witness ==
    /\ pc = "masto_link_parsed"
    /\ link_header =
          Some(Link(<<[params |-> <<Limit, MinId>>, rel |-> RelPrev],
                      [params |-> <<Limit, MaxIdParam(IdOf(2))>>, rel |-> RelNext]>>))
    /\ resp_cursor = Some(IdOf(2))

ThreadsVisited(p) ==
    \E j \in DOMAIN evaluated : evaluated[j] = <<Threads, server[Threads][p].id>>

\* C35: in the Threads pass every failure of a delete call is absorbed: the
\* pass returns Err only when a page fetch failed, and after a failed delete
\* call, whatever its kind, the pass that ends without a failed fetch has
\* visited every post, has counted only the deletions that succeeded and has
\* returned Ok.
C35_ThreadsDeleteFailuresAbsorbed ==
    /\ result.threads = "Err" => Failed({"list_threads"}) # {}
    /\ (pc = "threads_returned" /\ Failed({"list_threads"}) = {}) =>
          /\ result.threads = "Ok"
          /\ \A p \in 1..Len(server[Threads]) : ThreadsVisited(p)
    /\ (summary[Threads] # None /\ ~config.dry_run) =>
          summary[Threads][1].deleted = Cardinality(Succeeded("delete_thread"))

\* C35, as far as it holds: a delete request that comes back with a status
\* other than success is absorbed: if no page fetch failed and no delete
\* request failed in send(), the pass visits every post, counts only the
\* deletions that succeeded and returns Ok.
C35_ThreadsStatusFailuresAbsorbed ==
    /\ result.threads = "Err" =>
          \E i \in DOMAIN calls :
             \/ calls[i].op = "list_threads" /\ calls[i].res = "err"
             \/ calls[i].op = "delete_thread" /\ calls[i].res = "send_err"
    /\ (pc = "threads_returned" /\ \A i \in DOMAIN calls : calls[i].res \in {"ok", "status"}) =>
          /\ result.threads = "Ok"
          /\ \A p \in 1..Len(server[Threads]) : ThreadsVisited(p)
    /\ (summary[Threads] # None /\ ~config.dry_run) =>
          summary[Threads][1].deleted = Cardinality(Succeeded("delete_thread"))

\* A delete request came back with a failure status and the pass went on to
\* delete the next post and returned Ok.
C35_Witness ==
    /\ pc = "threads_returned"
    /\ result.threads = "Ok"
    /\ \E i \in DOMAIN calls : calls[i].op = "delete_thread" /\ calls[i].res = "status"
    /\ Succeeded("delete_thread") # {}

====
